---------------------------- MODULE Spec2Model ----------------------------
(***************************************************************************)
(* A model of the struetype font engine (src/struetype.h).                 *)
(*                                                                         *)
(* Representation of machine integers.  TLC's integers are 32 bits wide,   *)
(* so a C `int` is its own value and a C `stt_uint32` is represented by    *)
(* the `int` with the same bit pattern (0xFFFFFFFF is -1, 0x80000000 is    *)
(* MinInt32).  Add32 is addition modulo 2^32 on bit patterns; ULt/ULe      *)
(* compare bit patterns as unsigned numbers.  This is also what the C code *)
(* does when it stores a stt_uint32 in the `int` fields of stt_fontinfo.   *)
(*                                                                         *)
(* The font buffer is the sequence `data`; the byte at C offset o is       *)
(* data[o+1].  A load outside the buffer is undefined behaviour: it is     *)
(* recorded in `oob` and yields the byte `wild`, which a behaviour picks   *)
(* once, nondeterministically.  A failed STT_assert is recorded in         *)
(* `asserted`; in a build with assertions (ndebug = FALSE) it aborts the   *)
(* operation, in an NDEBUG build execution continues.                      *)
(***************************************************************************)
EXTENDS Integers, Sequences, FiniteSets, TLC

VARIABLES
    data,       \* the font buffer (unsigned char *data), a sequence of bytes
    info,       \* the stt_fontinfo handle
    pc,         \* "fresh" | "ready" | "failed" | "aborted" | "probe"
    op,         \* the last operation run, with its arguments
    ret,        \* what it returned
    oob,        \* it loaded a byte outside [0, data_size)
    asserted,   \* an STT_assert of it failed
    ndebug,     \* the build: TRUE when STT_assert compiles to nothing
    wild,       \* the byte an out-of-bounds load yields
    spc,        \* the stt_pack_context of the atlas packer
    buf,        \* a stt__buf the cursor operations are applied to
    run,        \* the locals of a stt__run_charstring that is under way
    calls,      \* the activations of stt__GetGlyphShapeTT under way, innermost last
    ras         \* the locals of a stt__rasterize_sorted_edges that is under way

vars == <<data, info, pc, op, ret, oob, asserted, ndebug, wild, spc, buf, run, calls, ras>>

----------------------------------------------------------------------------
(* Machine integers *)

\* Let(v, F) is F(v): v is computed once and F's parameter names it
Let(v, F(_)) == F(v)

MaxInt32 == 2147483647
MinInt32 == -MaxInt32 - 1

\* a + b modulo 2^32, on bit patterns
Add32(a, b) ==
    IF a >= 0 /\ b > 0 /\ a > MaxInt32 - b
    THEN (a + MinInt32) + (b + MinInt32)
    ELSE IF a < 0 /\ b < 0 /\ a < MinInt32 - b
    THEN (a - MinInt32) + (b - MinInt32)
    ELSE a + b

\* unsigned comparison of two bit patterns
ULt(a, b) == IF (a >= 0) = (b >= 0) THEN a < b ELSE a >= 0
ULe(a, b) == ~ULt(b, a)
UGe(a, b) == ~ULt(a, b)

\* (stt_int16) of a value in 0..65535
ToInt16(v) == IF v >= 32768 THEN v - 65536 ELSE v
\* (stt_uint16) of an int
ToUint16(v) == v % 65536

\* the bit pattern of the big-endian word b0 b1 b2 b3
Word32(b0, b1, b2, b3) ==
    (IF b0 >= 128 THEN b0 - 256 ELSE b0) * 16777216 + b1 * 65536 + b2 * 256 + b3

----------------------------------------------------------------------------
(* Loads from the font buffer *)

\* whether the address data + o (o an unsigned 32-bit offset) is in the buffer
InBuf(o) == o >= 0 /\ o < Len(data)

\* info->data[o]
Load(o) == IF InBuf(o) THEN data[o + 1] ELSE wild

\* Each reader yields [v |-> value, oob |-> a load went outside the buffer].
stt__safe_read8(offset) ==
    IF UGe(offset, info.data_size) THEN [v |-> 0, oob |-> FALSE]
    ELSE [v |-> Load(offset), oob |-> ~InBuf(offset)]

stt__safe_read16(offset) ==
    IF UGe(Add32(offset, 1), info.data_size) THEN [v |-> 0, oob |-> FALSE]
    ELSE [v   |-> Load(offset) * 256 + Load(Add32(offset, 1)),
          oob |-> ~InBuf(offset) \/ ~InBuf(Add32(offset, 1))]

stt__safe_read16_signed(offset) ==
    LET r == stt__safe_read16(offset) IN [v |-> ToInt16(r.v), oob |-> r.oob]

stt__safe_read32(offset) ==
    IF UGe(Add32(offset, 3), info.data_size) THEN [v |-> 0, oob |-> FALSE]
    ELSE [v   |-> Word32(Load(offset), Load(Add32(offset, 1)),
                         Load(Add32(offset, 2)), Load(Add32(offset, 3))),
          oob |-> \E k \in 0..3 : ~InBuf(Add32(offset, k))]

stt__safe_read32_signed(offset) == stt__safe_read32(offset)

\* offset + size <= (stt_uint32) data_size, the sum computed modulo 2^32
stt__safe_check_bounds(offset, size) == ULe(Add32(offset, size), info.data_size)


----------------------------------------------------------------------------
(* Table directory *)

\* four-character tags, as bytes
TagCmap == <<99, 109, 97, 112>>
TagLoca == <<108, 111, 99, 97>>
TagHead == <<104, 101, 97, 100>>
TagGlyf == <<103, 108, 121, 102>>
TagHhea == <<104, 104, 101, 97>>
TagHmtx == <<104, 109, 116, 120>>
TagKern == <<107, 101, 114, 110>>
TagGPOS == <<71, 80, 79, 83>>
TagMaxp == <<109, 97, 120, 112>>
TagCFF  == <<67, 70, 70, 32>>

\* stt_tag(data+loc, tag): compares byte by byte and stops at the first mismatch
stt_tag(loc, tag) == \A j \in 1..4 : Load(Add32(loc, j - 1)) = tag[j]

\* the bytes stt_tag loads are the matching prefix and the byte after it
stt_tag_oob(loc, tag) ==
    \E j \in 1..4 : /\ \A k \in 1..(j - 1) : Load(Add32(loc, k - 1)) = tag[k]
                    /\ ~InBuf(Add32(loc, j - 1))

\* the directory walk shared by stt__find_table (field = 8, the offset) and
\* stt__get_table_size (field = 12, the length)
RECURSIVE DirectoryWalk(_, _, _, _, _)
DirectoryWalk(fontstart, tag, field, i, num_tables) ==
    IF i >= num_tables THEN [v |-> 0, oob |-> FALSE]
    ELSE LET loc == Add32(Add32(fontstart, 12), 16 * i) IN
         IF ~stt__safe_check_bounds(loc, 16) THEN [v |-> 0, oob |-> FALSE]
         ELSE IF stt_tag(loc, tag)
         THEN LET r == stt__safe_read32(Add32(loc, field))
              IN  [v |-> r.v, oob |-> r.oob \/ stt_tag_oob(loc, tag)]
         ELSE LET r == DirectoryWalk(fontstart, tag, field, i + 1, num_tables)
              IN  [v |-> r.v, oob |-> r.oob \/ stt_tag_oob(loc, tag)]

stt__find_table(fontstart, tag) ==
    LET n == stt__safe_read16(Add32(fontstart, 4))
        r == DirectoryWalk(fontstart, tag, 8, 0, n.v)
    IN  [v |-> r.v, oob |-> n.oob \/ r.oob]

stt__get_table_size(fontstart, tag) ==
    LET n == stt__safe_read16(Add32(fontstart, 4))
        r == DirectoryWalk(fontstart, tag, 12, 0, n.v)
    IN  [v |-> r.v, oob |-> n.oob \/ r.oob]

----------------------------------------------------------------------------
(* cmap encoding record selection (the loop at the end of stt_InitFont)   *)

STT_PLATFORM_ID_UNICODE   == 0
STT_PLATFORM_ID_MICROSOFT == 3
STT_MS_EID_UNICODE_BMP    == 1
STT_MS_EID_UNICODE_FULL   == 10

\* whether the switch of the loop body assigns index_map for this record
RecordUnderstood(platform, encoding) ==
    \/ platform = STT_PLATFORM_ID_MICROSOFT
       /\ encoding \in {STT_MS_EID_UNICODE_BMP, STT_MS_EID_UNICODE_FULL}
    \/ platform = STT_PLATFORM_ID_UNICODE

\* a variant of the loop below that leaves the loop at the first record it
\* understands; the property of C8 tells the two apart
RECURSIVE SelectFirstIndexMap(_, _, _, _)
SelectFirstIndexMap(cmap, i, numTables, index_map) ==
    IF i >= numTables THEN [v |-> index_map, oob |-> FALSE]
    ELSE LET encoding_record == Add32(Add32(cmap, 4), 8 * i) IN
         IF ~stt__safe_check_bounds(encoding_record, 8)
         THEN [v |-> index_map, oob |-> FALSE]
         ELSE LET platform == stt__safe_read16(encoding_record)
                  encoding == stt__safe_read16(Add32(encoding_record, 2))
                  offset   == stt__safe_read32(Add32(encoding_record, 4))
              IN  IF RecordUnderstood(platform.v, encoding.v)
                  THEN [v   |-> Add32(cmap, offset.v),
                        oob |-> platform.oob \/ encoding.oob \/ offset.oob]
                  ELSE SelectFirstIndexMap(cmap, i + 1, numTables, index_map)

\* for (i=0; i < numTables; ++i) { ... }: yields the final index_map
RECURSIVE SelectIndexMap(_, _, _, _)
SelectIndexMap(cmap, i, numTables, index_map) ==
    IF i >= numTables THEN [v |-> index_map, oob |-> FALSE]
    ELSE LET encoding_record == Add32(Add32(cmap, 4), 8 * i) IN
         IF ~stt__safe_check_bounds(encoding_record, 8)
         THEN [v |-> index_map, oob |-> FALSE]
         ELSE LET platform == stt__safe_read16(encoding_record)
                  ms       == platform.v = STT_PLATFORM_ID_MICROSOFT
                  \* the encoding ID is read for Microsoft records only
                  encoding == IF ms THEN stt__safe_read16(Add32(encoding_record, 2))
                              ELSE [v |-> 0, oob |-> FALSE]
                  taken    == RecordUnderstood(platform.v, encoding.v)
                  offset   == IF taken THEN stt__safe_read32(Add32(encoding_record, 4))
                              ELSE [v |-> 0, oob |-> FALSE]
                  next     == IF taken THEN Add32(cmap, offset.v) ELSE index_map
                  rest     == SelectIndexMap(cmap, i + 1, numTables, next)
              IN  [v   |-> rest.v,
                   oob |-> platform.oob \/ encoding.oob \/ offset.oob \/ rest.oob]


----------------------------------------------------------------------------
(* stt__buf: the byte cursor of the CFF parser                             *)
(*                                                                         *)
(* A buffer is [base, cursor, size]: base is the offset of its data        *)
(* pointer from info->data.  A negative base stands for a pointer formed   *)
(* from an unsigned offset of 2^31 or more: no cursor brings it back into  *)
(* the font buffer.  Operations that load bytes yield the advanced buffer  *)
(* in field b, and asrt when an STT_assert failed in a build that has them *)
(* (execution of the caller stops there).                                  *)

NullBuf == [base |-> 0, cursor |-> 0, size |-> 0]

\* a - b modulo 2^32
Sub32(a, b) == IF b = MinInt32 THEN Add32(Add32(a, MaxInt32), 1) ELSE Add32(a, -b)

\* (v << 8) | byte on a stt_uint32
ShlOr8(v, byte) == Word32((v \div 65536) % 256, (v \div 256) % 256, v % 256, byte)

\* whether b->data[k] lies in the font buffer
BufIn(b, k) == b.base >= 0 /\ InBuf(b.base + k)
BufLoad(b, k) == IF BufIn(b, k) THEN data[b.base + k + 1] ELSE wild

stt__buf_get8(b) ==
    IF b.cursor >= b.size THEN [v |-> 0, b |-> b, oob |-> FALSE]
    ELSE [v   |-> BufLoad(b, b.cursor),
          b   |-> [b EXCEPT !.cursor = @ + 1],
          oob |-> ~BufIn(b, b.cursor)]

stt__buf_peek8(b) ==
    IF b.cursor >= b.size THEN [v |-> 0, oob |-> FALSE]
    ELSE [v |-> BufLoad(b, b.cursor), oob |-> ~BufIn(b, b.cursor)]

\* a seek that clamps at the end only
SeekClampingAbove(b, o) ==
    [b EXCEPT !.cursor = IF o > b.size THEN b.size ELSE o]

stt__buf_seek(b, o) ==
    [b EXCEPT !.cursor = IF o > b.size \/ o < 0 THEN b.size ELSE o]

stt__buf_skip(b, o) == stt__buf_seek(b, Add32(b.cursor, o))

\* for (i = 0; i < n; i++) v = (v << 8) | stt__buf_get8(b);
RECURSIVE BufGetLoop(_, _, _, _)
BufGetLoop(b, n, v, o) ==
    IF n <= 0 THEN [v |-> v, b |-> b, oob |-> o, asrt |-> FALSE]
    ELSE Let(stt__buf_get8(b), LAMBDA g :
             BufGetLoop(g.b, n - 1, ShlOr8(v, g.v), o \/ g.oob))

\* STT_assert(n >= 1 && n <= 4), then n bytes, big-endian
stt__buf_get(b, n) ==
    IF ~ndebug /\ ~(n >= 1 /\ n <= 4)
    THEN [v |-> 0, b |-> b, oob |-> FALSE, asrt |-> TRUE]
    ELSE BufGetLoop(b, n, 0, FALSE)

\* STT_assert(size < 0x40000000): size is a size_t
stt__new_buf_asrt(size) == ~ndebug /\ ~ULt(size, 1073741824)
stt__new_buf(base, size) == [base |-> base, cursor |-> 0, size |-> size]

stt__buf_range(b, o, s) ==
    IF o < 0 \/ s < 0 \/ o > b.size \/ s > b.size - o THEN NullBuf
    ELSE [base |-> IF b.base < 0 THEN b.base ELSE b.base + o, cursor |-> 0, size |-> s]

stt__cff_get_index(b) ==
    Let(stt__buf_get(b, 2), LAMBDA count :
    IF count.v = 0
    THEN [idx  |-> stt__buf_range(count.b, b.cursor, count.b.cursor - b.cursor),
          b    |-> count.b, oob |-> count.oob, asrt |-> FALSE]
    ELSE
    Let(stt__buf_get8(count.b), LAMBDA offsize :
    IF ~ndebug /\ ~(offsize.v >= 1 /\ offsize.v <= 4)
    THEN [idx |-> NullBuf, b |-> offsize.b,
          oob |-> count.oob \/ offsize.oob, asrt |-> TRUE]
    ELSE
    Let(stt__buf_get(stt__buf_skip(offsize.b, offsize.v * count.v), offsize.v),
        LAMBDA last :
    Let(stt__buf_skip(last.b, Sub32(last.v, 1)), LAMBDA b2 :
        [idx  |-> stt__buf_range(b2, b.cursor, b2.cursor - b.cursor),
         b    |-> b2,
         oob  |-> count.oob \/ offsize.oob \/ last.oob,
         asrt |-> FALSE]))))

stt__cff_int(b) ==
    Let(stt__buf_get8(b), LAMBDA b0 :
    IF b0.v >= 32 /\ b0.v <= 246 THEN [v |-> b0.v - 139, b |-> b0.b, oob |-> b0.oob]
    ELSE IF b0.v >= 247 /\ b0.v <= 250
    THEN Let(stt__buf_get8(b0.b), LAMBDA b1 :
             [v |-> (b0.v - 247) * 256 + b1.v + 108, b |-> b1.b, oob |-> b0.oob \/ b1.oob])
    ELSE IF b0.v >= 251 /\ b0.v <= 254
    THEN Let(stt__buf_get8(b0.b), LAMBDA b1 :
             [v |-> -(b0.v - 251) * 256 - b1.v - 108, b |-> b1.b, oob |-> b0.oob \/ b1.oob])
    ELSE IF b0.v = 28
    THEN Let(stt__buf_get(b0.b, 2), LAMBDA r :
             [v |-> r.v, b |-> r.b, oob |-> b0.oob \/ r.oob])
    ELSE IF b0.v = 29
    THEN Let(stt__buf_get(b0.b, 4), LAMBDA r :
             [v |-> r.v, b |-> r.b, oob |-> b0.oob \/ r.oob])
    ELSE [v |-> 0, b |-> b0.b, oob |-> b0.oob])

\* while (b->cursor < b->size) { v = get8; if a nibble of v is 0xF break; }
RECURSIVE SkipReal(_, _)
SkipReal(b, o) ==
    IF b.cursor >= b.size THEN [b |-> b, oob |-> o]
    ELSE Let(stt__buf_get8(b), LAMBDA v :
             IF v.v % 16 = 15 \/ v.v \div 16 = 15 THEN [b |-> v.b, oob |-> o \/ v.oob]
             ELSE SkipReal(v.b, o \/ v.oob))

stt__cff_skip_operand(b) ==
    Let(stt__buf_peek8(b), LAMBDA b0 :
    IF b0.v < 28 THEN [b |-> b, oob |-> b0.oob]
    ELSE IF b0.v = 30
    THEN Let(SkipReal(stt__buf_skip(b, 1), FALSE), LAMBDA r :
             [b |-> r.b, oob |-> b0.oob \/ r.oob])
    ELSE Let(stt__cff_int(b), LAMBDA r : [b |-> r.b, oob |-> b0.oob \/ r.oob]))

\* while (stt__buf_peek8(b) >= 28) stt__cff_skip_operand(b);
RECURSIVE SkipOperands(_, _)
SkipOperands(b, o) ==
    Let(stt__buf_peek8(b), LAMBDA p :
    IF p.v >= 28
    THEN Let(stt__cff_skip_operand(b), LAMBDA r : SkipOperands(r.b, o \/ p.oob \/ r.oob))
    ELSE [b |-> b, oob |-> o \/ p.oob])

\* the while loop of stt__dict_get: yields the operands of key in field v
RECURSIVE DictScan(_, _, _)
DictScan(b, key, o) ==
    IF b.cursor >= b.size THEN [v |-> stt__buf_range(b, 0, 0), oob |-> o]
    ELSE
    Let(SkipOperands(b, FALSE), LAMBDA sk :
    Let(stt__buf_get8(sk.b), LAMBDA op1 :
    Let(IF op1.v = 12 THEN stt__buf_get8(op1.b)
        ELSE [v |-> 0, b |-> op1.b, oob |-> FALSE], LAMBDA op2 :
    Let(o \/ sk.oob \/ op1.oob \/ op2.oob, LAMBDA o2 :
        IF (IF op1.v = 12 THEN op2.v + 256 ELSE op1.v) = key
        THEN [v   |-> stt__buf_range(op2.b, b.cursor, sk.b.cursor - b.cursor),
              oob |-> o2]
        ELSE DictScan(op2.b, key, o2)))))

stt__dict_get(b, key) == DictScan(stt__buf_seek(b, 0), key, FALSE)

\* for (i = 0; i < outcount && operands.cursor < operands.size; i++) out[i] = cff_int
RECURSIVE DictInts(_, _, _, _, _)
DictInts(operands, i, outcount, out, o) ==
    IF i >= outcount \/ operands.cursor >= operands.size THEN [v |-> out, oob |-> o]
    ELSE Let(stt__cff_int(operands), LAMBDA r :
             DictInts(r.b, i + 1, outcount, [out EXCEPT ![i + 1] = r.v], o \/ r.oob))

\* `out` holds the values the caller initialised the output array with
stt__dict_get_ints(b, key, outcount, out) ==
    Let(stt__dict_get(b, key), LAMBDA operands :
        DictInts(operands.v, 0, outcount, out, operands.oob))

stt__cff_index_count(b) ==
    Let(stt__buf_get(stt__buf_seek(b, 0), 2), LAMBDA r : [v |-> r.v, oob |-> r.oob])

stt__cff_index_get(b, i) ==
    Let(stt__buf_get(stt__buf_seek(b, 0), 2), LAMBDA count :
    Let(stt__buf_get8(count.b), LAMBDA offsize :
    IF ~ndebug /\ (~(i >= 0 /\ i < count.v) \/ ~(offsize.v >= 1 /\ offsize.v <= 4))
    THEN [v |-> NullBuf, oob |-> count.oob \/ offsize.oob, asrt |-> TRUE]
    ELSE
    Let(stt__buf_get(stt__buf_skip(offsize.b, i * offsize.v), offsize.v), LAMBDA start :
    Let(stt__buf_get(start.b, offsize.v), LAMBDA end :
        [v    |-> stt__buf_range(end.b,
                     Add32(2 + (count.v + 1) * offsize.v, start.v),
                     Sub32(end.v, start.v)),
         oob  |-> count.oob \/ offsize.oob \/ start.oob \/ end.oob,
         asrt |-> FALSE]))))

stt__get_subrs(cff, fontdict) ==
    Let(stt__dict_get_ints(fontdict, 18, 2, <<0, 0>>), LAMBDA private_loc :
    IF private_loc.v[2] = 0 \/ private_loc.v[1] = 0
    THEN [v |-> NullBuf, oob |-> private_loc.oob, asrt |-> FALSE]
    ELSE
    Let(stt__dict_get_ints(stt__buf_range(cff, private_loc.v[2], private_loc.v[1]),
                           19, 1, <<0>>), LAMBDA subrsoff :
    IF subrsoff.v[1] = 0
    THEN [v |-> NullBuf, oob |-> private_loc.oob \/ subrsoff.oob, asrt |-> FALSE]
    ELSE
    Let(stt__cff_get_index(stt__buf_seek(cff, Add32(private_loc.v[2], subrsoff.v[1]))),
        LAMBDA r :
        [v    |-> r.idx,
         oob  |-> private_loc.oob \/ subrsoff.oob \/ r.oob,
         asrt |-> r.asrt])))


----------------------------------------------------------------------------
(* stt_InitFont *)

\* one stt__cff_get_index(&b) of the header parse; nothing runs after an abort
IndexStep(m) ==
    IF m.asrt THEN m
    ELSE Let(stt__cff_get_index(m.b), LAMBDA r :
             [b |-> r.b, idx |-> r.idx, oob |-> m.oob \/ r.oob, asrt |-> r.asrt])

\* The CFF branch of stt_InitFont_internal.  Yields ret = 0 (return 0),
\* ret = 1 (fall through to the common tail), the handle, oob and asrt.
InitFontCFF(inf, fontstart) ==
    Let(stt__find_table(fontstart, TagCFF), LAMBDA cff :
    IF cff.v = 0 THEN [ret |-> 0, info |-> inf, oob |-> cff.oob, asrt |-> FALSE]
    ELSE
    Let([inf EXCEPT !.fontdicts = NullBuf, !.fdselect = NullBuf], LAMBDA inf1 :
    Let(stt__get_table_size(fontstart, TagCFF), LAMBDA cff_size :
    IF cff_size.v = 0 \/ ULt(info.data_size, Add32(cff.v, cff_size.v))
    THEN [ret |-> 0, info |-> inf1, oob |-> cff.oob \/ cff_size.oob, asrt |-> FALSE]
    ELSE
    Let(stt__new_buf(cff.v, cff_size.v), LAMBDA cffbuf :
    Let([inf1 EXCEPT !.cff = cffbuf], LAMBDA inf2 :
    \* read the header
    Let(stt__buf_get8(stt__buf_skip(cffbuf, 2)), LAMBDA hdrsize :
    \* the name INDEX, then the Top DICT INDEX
    Let(IndexStep(IndexStep(
            [b    |-> stt__buf_seek(hdrsize.b, hdrsize.v), idx |-> NullBuf,
             oob  |-> cff.oob \/ cff_size.oob
                      \/ (hdrsize.oob /\ ~stt__new_buf_asrt(cff_size.v)),
             asrt |-> stt__new_buf_asrt(cff_size.v)])), LAMBDA mTop :
    Let(IF mTop.asrt THEN [v |-> NullBuf, oob |-> FALSE, asrt |-> TRUE]
        ELSE stt__cff_index_get(mTop.idx, 0), LAMBDA topdict :
    \* the string INDEX, then the global subrs
    Let(IndexStep(IndexStep(
            [mTop EXCEPT !.oob = @ \/ topdict.oob, !.asrt = topdict.asrt])),
        LAMBDA mGsubrs :
    IF mGsubrs.asrt THEN [ret |-> 0, info |-> inf2, oob |-> mGsubrs.oob, asrt |-> TRUE]
    ELSE
    Let(stt__dict_get_ints(topdict.v, 17, 1, <<0>>), LAMBDA charstrings :
    Let(stt__dict_get_ints(topdict.v, 256 + 6, 1, <<2>>), LAMBDA cstype :
    Let(stt__dict_get_ints(topdict.v, 256 + 36, 1, <<0>>), LAMBDA fdarrayoff :
    Let(stt__dict_get_ints(topdict.v, 256 + 37, 1, <<0>>), LAMBDA fdselectoff :
    Let(stt__get_subrs(mGsubrs.b, topdict.v), LAMBDA subrs :
    Let([inf2 EXCEPT !.gsubrs = mGsubrs.idx, !.subrs = subrs.v], LAMBDA inf3 :
    Let(mGsubrs.oob \/ charstrings.oob \/ cstype.oob \/ fdarrayoff.oob
        \/ fdselectoff.oob \/ subrs.oob, LAMBDA o2 :
    IF subrs.asrt THEN [ret |-> 0, info |-> inf3, oob |-> o2, asrt |-> TRUE]
    \* we only support Type 2 charstrings
    ELSE IF cstype.v[1] # 2 THEN [ret |-> 0, info |-> inf3, oob |-> o2, asrt |-> FALSE]
    ELSE IF charstrings.v[1] = 0 THEN [ret |-> 0, info |-> inf3, oob |-> o2, asrt |-> FALSE]
    ELSE IF fdarrayoff.v[1] # 0 /\ fdselectoff.v[1] = 0
    THEN [ret |-> 0, info |-> inf3, oob |-> o2, asrt |-> FALSE]
    ELSE
    Let(IF fdarrayoff.v[1] # 0
        THEN IndexStep([b   |-> stt__buf_seek(mGsubrs.b, fdarrayoff.v[1]),
                        idx |-> NullBuf, oob |-> o2, asrt |-> FALSE])
        ELSE [b |-> mGsubrs.b, idx |-> NullBuf, oob |-> o2, asrt |-> FALSE], LAMBDA mFd :
    Let(IF fdarrayoff.v[1] # 0 /\ ~mFd.asrt
        THEN [inf3 EXCEPT !.fontdicts = mFd.idx,
                          !.fdselect  = stt__buf_range(mFd.b, fdselectoff.v[1],
                                          Sub32(mFd.b.size, fdselectoff.v[1]))]
        ELSE inf3, LAMBDA inf4 :
    Let(IndexStep([mFd EXCEPT !.b = stt__buf_seek(mFd.b, charstrings.v[1])]), LAMBDA mCs :
    IF mCs.asrt THEN [ret |-> 0, info |-> inf4, oob |-> mCs.oob, asrt |-> TRUE]
    ELSE [ret |-> 1, info |-> [inf4 EXCEPT !.charstrings = mCs.idx],
          oob |-> mCs.oob, asrt |-> FALSE])))))))))))))))))))

\* maxp, the cmap encoding records and head.indexToLocFormat
InitFontTail(inf, fontstart, cmap) ==
    Let(stt__find_table(fontstart, TagMaxp), LAMBDA t :
    Let(IF t.v # 0 THEN stt__safe_read16(Add32(t.v, 4))
        ELSE [v |-> 65535, oob |-> FALSE], LAMBDA numGlyphs :
    Let(stt__safe_read16(Add32(cmap, 2)), LAMBDA numTables :
    Let(SelectIndexMap(cmap, 0, numTables.v, 0), LAMBDA index_map :
    Let([inf EXCEPT !.numGlyphs = numGlyphs.v, !.svg = -1,
                    !.index_map = index_map.v], LAMBDA inf1 :
    Let(t.oob \/ numGlyphs.oob \/ numTables.oob \/ index_map.oob, LAMBDA o1 :
    IF index_map.v = 0 THEN [ret |-> 0, info |-> inf1, oob |-> o1, asrt |-> FALSE]
    ELSE Let(stt__safe_read16(Add32(inf.head, 50)), LAMBDA loc :
             [ret  |-> 1, info |-> [inf1 EXCEPT !.indexToLocFormat = loc.v],
              oob  |-> o1 \/ loc.oob, asrt |-> FALSE])))))))

\* the part of stt_InitFont_internal after the directory lookups; t holds the
\* results of the eight stt__find_table calls
InitFontBody(fontstart, t) ==
    Let([info EXCEPT !.fontstart = fontstart, !.cff = NullBuf,
                     !.loca = t.loca.v, !.head = t.head.v, !.glyf = t.glyf.v,
                     !.hhea = t.hhea.v, !.hmtx = t.hmtx.v, !.kern = t.kern.v,
                     !.gpos = t.gpos.v], LAMBDA inf :
    Let(t.cmap.oob \/ t.loca.oob \/ t.head.oob \/ t.glyf.oob \/ t.hhea.oob
        \/ t.hmtx.oob \/ t.kern.oob \/ t.gpos.oob, LAMBDA o1 :
    IF t.cmap.v = 0 \/ t.head.v = 0 \/ t.hhea.v = 0 \/ t.hmtx.v = 0
    THEN [ret |-> 0, info |-> inf, oob |-> o1, asrt |-> FALSE]
    ELSE IF t.glyf.v # 0
    THEN IF t.loca.v = 0 THEN [ret |-> 0, info |-> inf, oob |-> o1, asrt |-> FALSE]
         ELSE Let(InitFontTail(inf, fontstart, t.cmap.v), LAMBDA r :
                  [r EXCEPT !.oob = @ \/ o1])
    ELSE Let(InitFontCFF(inf, fontstart), LAMBDA c :
             IF c.ret = 0 THEN [c EXCEPT !.oob = @ \/ o1]
             ELSE Let(InitFontTail(c.info, fontstart, t.cmap.v), LAMBDA r :
                      [r EXCEPT !.oob = @ \/ o1 \/ c.oob]))))

stt_InitFont_internal(fontstart) ==
    InitFontBody(fontstart,
                 [cmap |-> stt__find_table(fontstart, TagCmap),
                  loca |-> stt__find_table(fontstart, TagLoca),
                  head |-> stt__find_table(fontstart, TagHead),
                  glyf |-> stt__find_table(fontstart, TagGlyf),
                  hhea |-> stt__find_table(fontstart, TagHhea),
                  hmtx |-> stt__find_table(fontstart, TagHmtx),
                  kern |-> stt__find_table(fontstart, TagKern),
                  gpos |-> stt__find_table(fontstart, TagGPOS)])


----------------------------------------------------------------------------
(* stt_FindGlyphIndex *)

\* x >> 1 on a stt_uint32
Shr1U(x) == IF x >= 0 THEN x \div 2 ELSE (x - MinInt32) \div 2 + 1073741824

\* a search that also moves on when the codepoint is the end of the segment
RECURSIVE SearchPastEqualEnd(_, _, _, _, _)
SearchPastEqualEnd(c, search, searchRange, entrySelector, o) ==
    IF entrySelector = 0 THEN [v |-> search, oob |-> o]
    ELSE LET range == searchRange \div 2
             end   == stt__safe_read16(Add32(search, range * 2))
         IN  SearchPastEqualEnd(c, IF c >= end.v THEN Add32(search, range * 2) ELSE search,
                                range, entrySelector - 1, o \/ end.oob)

\* while (entrySelector) { ... } of the format-4 search: yields search
RECURSIVE Format4Search(_, _, _, _, _)
Format4Search(c, search, searchRange, entrySelector, o) ==
    IF entrySelector = 0 THEN [v |-> search, oob |-> o]
    ELSE LET range == searchRange \div 2
             end   == stt__safe_read16(Add32(search, range * 2))
         IN  Format4Search(c, IF c > end.v THEN Add32(search, range * 2) ELSE search,
                           range, entrySelector - 1, o \/ end.oob)

FindGlyphFormat4(index_map, c) ==
    LET segcount      == stt__safe_read16(Add32(index_map, 6))
        searchRange   == stt__safe_read16(Add32(index_map, 8))
        entrySelector == stt__safe_read16(Add32(index_map, 10))
        rangeShift    == stt__safe_read16(Add32(index_map, 12))
        segs          == segcount.v \div 2
        shift         == rangeShift.v \div 2
        endCount      == Add32(index_map, 14)
        o1            == segcount.oob \/ searchRange.oob \/ entrySelector.oob
                         \/ rangeShift.oob
    IN
    IF c > 65535 THEN [v |-> 0, oob |-> o1, asrt |-> FALSE]
    ELSE
    LET first  == stt__safe_read16(Add32(endCount, shift * 2))
        s0     == IF c >= first.v THEN Add32(endCount, shift * 2) ELSE endCount
        found  == Format4Search(c, Sub32(s0, 2), searchRange.v \div 2, entrySelector.v,
                                FALSE)
        search == Add32(found.v, 2)
        item   == ToUint16(Shr1U(Sub32(search, endCount)))
        start  == stt__safe_read16(Add32(index_map, 14 + segs * 2 + 2 + 2 * item))
        last   == stt__safe_read16(Add32(endCount, 2 * item))
        o2     == o1 \/ first.oob \/ found.oob \/ start.oob \/ last.oob
    IN
    IF c < start.v \/ c > last.v THEN [v |-> 0, oob |-> o2, asrt |-> FALSE]
    ELSE
    LET offset == stt__safe_read16(Add32(index_map, 14 + segs * 6 + 2 + 2 * item)) IN
    IF offset.v = 0
    THEN LET delta == stt__safe_read16_signed(
                          Add32(index_map, 14 + segs * 4 + 2 + 2 * item))
         IN  [v |-> ToUint16(c + delta.v), oob |-> o2 \/ offset.oob \/ delta.oob,
              asrt |-> FALSE]
    ELSE LET g == stt__safe_read16(
                      Add32(index_map,
                            offset.v + (c - start.v) * 2 + 14 + segs * 6 + 2 + 2 * item))
         IN  [v |-> g.v, oob |-> o2 \/ offset.oob \/ g.oob, asrt |-> FALSE]

\* while (low < high) { ... } of formats 12 and 13
RECURSIVE GroupSearch(_, _, _, _, _, _)
GroupSearch(index_map, format, c, low, high, o) ==
    IF low >= high THEN [v |-> 0, oob |-> o, asrt |-> FALSE]
    ELSE LET mid        == low + (high - low) \div 2
             start_char == stt__safe_read32(Add32(index_map, 16 + mid * 12))
             end_char   == stt__safe_read32(Add32(index_map, 16 + mid * 12 + 4))
             o1         == o \/ start_char.oob \/ end_char.oob
         IN  IF ULt(c, start_char.v)
             THEN GroupSearch(index_map, format, c, low, mid, o1)
             ELSE IF ULt(end_char.v, c)
             THEN GroupSearch(index_map, format, c, mid + 1, high, o1)
             ELSE LET start_glyph == stt__safe_read32(Add32(index_map, 16 + mid * 12 + 8))
                  IN  [v    |-> IF format = 12
                                THEN Sub32(Add32(start_glyph.v, c), start_char.v)
                                ELSE start_glyph.v,
                       oob  |-> o1 \/ start_glyph.oob,
                       asrt |-> FALSE]

stt_FindGlyphIndex(unicode_codepoint) ==
    LET index_map == info.index_map
        c         == unicode_codepoint
        format    == stt__safe_read16(index_map)
    IN
    IF format.v = 0
    THEN LET bytes == stt__safe_read16(Add32(index_map, 2)) IN
         IF c < bytes.v - 6
         THEN LET g == stt__safe_read8(Add32(index_map, 6 + c))
              IN  [v |-> g.v, oob |-> format.oob \/ bytes.oob \/ g.oob, asrt |-> FALSE]
         ELSE [v |-> 0, oob |-> format.oob \/ bytes.oob, asrt |-> FALSE]
    ELSE IF format.v = 6
    THEN LET first == stt__safe_read16(Add32(index_map, 6))
             count == stt__safe_read16(Add32(index_map, 8))
             o1    == format.oob \/ first.oob \/ count.oob
         IN  IF UGe(c, first.v) /\ ULt(c, first.v + count.v)
             THEN LET g == stt__safe_read16(Add32(index_map, 10 + (c - first.v) * 2))
                  IN  [v |-> g.v, oob |-> o1 \/ g.oob, asrt |-> FALSE]
             ELSE [v |-> 0, oob |-> o1, asrt |-> FALSE]
    ELSE IF format.v = 2
    \* STT_assert(0): high-byte mapping is not implemented
    THEN [v |-> 0, oob |-> format.oob, asrt |-> ~ndebug]
    ELSE IF format.v = 4
    THEN LET r == FindGlyphFormat4(index_map, c) IN [r EXCEPT !.oob = @ \/ format.oob]
    ELSE IF format.v = 12 \/ format.v = 13
    THEN LET ngroups == stt__safe_read32(Add32(index_map, 12))
         IN  GroupSearch(index_map, format.v, c, 0, ngroups.v, format.oob \/ ngroups.oob)
    \* STT_assert(0)
    ELSE [v |-> 0, oob |-> format.oob, asrt |-> ~ndebug]

----------------------------------------------------------------------------
(* Glyph location, box and metrics *)

\* a pointer offset from info->data: an int added to a pointer does not wrap;
\* an offset beyond the int range stays outside any buffer
PtrAdd(a, k) ==
    IF k > 0 /\ a > MaxInt32 - k THEN MaxInt32
    ELSE IF k < 0 /\ a < MinInt32 - k THEN MinInt32
    ELSE a + k

\* ttUSHORT(info->data + p) and ttSHORT(info->data + p): no bounds check
ttUSHORT(p) ==
    [v   |-> Load(p) * 256 + Load(PtrAdd(p, 1)),
     oob |-> ~InBuf(p) \/ ~InBuf(PtrAdd(p, 1))]
ttSHORT(p) == LET r == ttUSHORT(p) IN [v |-> ToInt16(r.v), oob |-> r.oob]

\* STT_assert(!info->cff.size) holds in every caller modelled here
stt__GetGlyfOffset(glyph_index) ==
    IF glyph_index >= info.numGlyphs THEN [v |-> -1, oob |-> FALSE]
    ELSE IF info.indexToLocFormat >= 2 THEN [v |-> -1, oob |-> FALSE]
    ELSE LET a  == IF info.indexToLocFormat = 0
                   THEN stt__safe_read16(Add32(info.loca, glyph_index * 2))
                   ELSE stt__safe_read32(Add32(info.loca, glyph_index * 4))
             b  == IF info.indexToLocFormat = 0
                   THEN stt__safe_read16(Add32(info.loca, glyph_index * 2 + 2))
                   ELSE stt__safe_read32(Add32(info.loca, glyph_index * 4 + 4))
             g1 == Add32(info.glyf, IF info.indexToLocFormat = 0 THEN a.v * 2 ELSE a.v)
             g2 == Add32(info.glyf, IF info.indexToLocFormat = 0 THEN b.v * 2 ELSE b.v)
         IN  [v |-> IF g1 = g2 THEN -1 ELSE g1, oob |-> a.oob \/ b.oob]

\* yields <<advanceWidth, leftSideBearing>>
stt_GetGlyphHMetrics(glyph_index) ==
    LET numOfLongHorMetrics == ttUSHORT(PtrAdd(info.hhea, 34))
        n   == numOfLongHorMetrics.v
        adv == IF glyph_index < n THEN ttSHORT(PtrAdd(info.hmtx, 4 * glyph_index))
               ELSE ttSHORT(PtrAdd(info.hmtx, 4 * (n - 1)))
        lsb == IF glyph_index < n THEN ttSHORT(PtrAdd(info.hmtx, 4 * glyph_index + 2))
               ELSE ttSHORT(PtrAdd(info.hmtx, 4 * n + 2 * (glyph_index - n)))
    IN  [v |-> <<adv.v, lsb.v>>, oob |-> numOfLongHorMetrics.oob \/ adv.oob \/ lsb.oob]

----------------------------------------------------------------------------
(* Glyph outlines from the glyf table                                      *)
(*                                                                         *)
(* The vertex array of m entries is the sequence vs: entry k is vs[k+1].   *)
(* The decoder first stores the raw flags and coordinates of the n points  *)
(* in its last n entries and then emits vertices from the front.  An       *)
(* access at an index of m or more is outside the allocation: it is        *)
(* recorded in heap; such a store is lost and such a load yields bytes of  *)
(* value wild.                                                             *)

STT_vmove  == 1
STT_vline  == 2
STT_vcurve == 3

\* whether the bit of weight k is set in v
Bit(v, k) == (v \div k) % 2 = 1

\* *points++
NextByte(points) == [v |-> Load(points), oob |-> ~InBuf(points)]

\* first load flags: for (i=0; i < n; ++i) { ... vertices[off+i].type = flags; }
RECURSIVE LoadFlags(_, _, _, _, _, _, _)
LoadFlags(points, i, n, flags, flagcount, out, o) ==
    IF i >= n THEN [v |-> out, points |-> points, oob |-> o]
    ELSE IF flagcount # 0
    THEN LoadFlags(points, i + 1, n, flags, flagcount - 1, Append(out, flags), o)
    ELSE Let(NextByte(points), LAMBDA f :
             IF Bit(f.v, 8)
             THEN Let(NextByte(PtrAdd(points, 1)), LAMBDA c :
                      LoadFlags(PtrAdd(points, 2), i + 1, n, f.v, c.v, Append(out, f.v),
                                o \/ f.oob \/ c.oob))
             ELSE LoadFlags(PtrAdd(points, 1), i + 1, n, f.v, 0, Append(out, f.v),
                            o \/ f.oob))

\* now load x coordinates (short = 2, same = 16) or y coordinates (4, 32):
\* for (i=0; i < n; ++i) { ... vertices[off+i].x = (stt_int16) x; }
RECURSIVE LoadCoords(_, _, _, _, _, _, _, _)
LoadCoords(points, types, short, same, i, x, out, o) ==
    IF i >= Len(types) THEN [v |-> out, points |-> points, oob |-> o]
    ELSE IF Bit(types[i + 1], short)
    THEN Let(NextByte(points), LAMBDA d :
         Let(IF Bit(types[i + 1], same) THEN x + d.v ELSE x - d.v, LAMBDA x1 :
             LoadCoords(PtrAdd(points, 1), types, short, same, i + 1, x1,
                        Append(out, ToInt16(x1 % 65536)), o \/ d.oob)))
    ELSE IF ~Bit(types[i + 1], same)
    THEN Let(ttSHORT(points), LAMBDA d :
             LoadCoords(PtrAdd(points, 2), types, short, same, i + 1, x + d.v,
                        Append(out, ToInt16((x + d.v) % 65536)), o \/ d.oob))
    ELSE LoadCoords(points, types, short, same, i + 1, x,
                    Append(out, ToInt16(x % 65536)), o)

\* stt_setvertex(&vertices[num_vertices++], type, x, y, cx, cy) on the state
\* st of the conversion loop.  A store past the array is recorded in heap, and
\* one over the raw entry of a point the loop has not loaded yet in clobber.
SetVertex(st, type, x, y, cx, cy) ==
    Let([type |-> type, x |-> ToInt16(x % 65536), y |-> ToInt16(y % 65536),
         cx |-> ToInt16(cx % 65536), cy |-> ToInt16(cy % 65536)], LAMBDA v :
        IF st.num_vertices < Len(st.vs)
        THEN [st EXCEPT !.vs[st.num_vertices + 1] = v, !.num_vertices = @ + 1,
                        !.clobber = @ \/ st.num_vertices > st.off + st.i]
        ELSE [st EXCEPT !.num_vertices = @ + 1, !.heap = TRUE])

stt__close_shape(st) ==
    IF st.start_off
    THEN SetVertex(IF st.was_off
                   THEN SetVertex(st, STT_vcurve, (st.cx + st.scx) \div 2,
                                  (st.cy + st.scy) \div 2, st.cx, st.cy)
                   ELSE st,
                   STT_vcurve, st.sx, st.sy, st.scx, st.scy)
    ELSE IF st.was_off
    THEN SetVertex(st, STT_vcurve, st.sx, st.sy, st.cx, st.cy)
    ELSE SetVertex(st, STT_vline, st.sx, st.sy, 0, 0)

\* vertices[k] as the conversion loop loads it
RawVertex(st, k) ==
    IF k < Len(st.vs) THEN st.vs[k + 1]
    ELSE [type |-> wild, x |-> ToInt16(wild * 257), y |-> ToInt16(wild * 257),
          cx |-> 0, cy |-> 0]

\* the branch `if (next_move == i)` of the conversion loop, after the shape
\* before it has been closed: start a new contour
StartContour(st, endPtsOfContours, raw) ==
    Let(RawVertex(st, st.off + st.i + 1), LAMBDA next :
    Let(ttUSHORT(PtrAdd(endPtsOfContours, st.j * 2)), LAMBDA endPt :
    Let(IF Bit(raw.type, 1)
        THEN [st EXCEPT !.start_off = FALSE, !.sx = raw.x, !.sy = raw.y]
        ELSE IF ~Bit(next.type, 1)
        THEN [st EXCEPT !.start_off = TRUE, !.scx = raw.x, !.scy = raw.y,
                        !.sx = (raw.x + next.x) \div 2, !.sy = (raw.y + next.y) \div 2,
                        !.heap = @ \/ st.off + st.i + 1 >= Len(st.vs)]
        ELSE [st EXCEPT !.start_off = TRUE, !.scx = raw.x, !.scy = raw.y,
                        !.sx = next.x, !.sy = next.y, !.i = @ + 1,
                        !.heap = @ \/ st.off + st.i + 1 >= Len(st.vs)], LAMBDA s1 :
    Let(SetVertex(s1, STT_vmove, s1.sx, s1.sy, 0, 0), LAMBDA s2 :
        [s2 EXCEPT !.was_off = FALSE, !.next_move = 1 + endPt.v, !.j = @ + 1,
                   !.oob = @ \/ endPt.oob]))))

\* now convert them to our format: for (i=0; i < n; ++i) { ... }
RECURSIVE ConvertPoints(_, _, _)
ConvertPoints(st, n, endPtsOfContours) ==
    IF st.i >= n THEN st
    ELSE
    Let(RawVertex(st, st.off + st.i), LAMBDA raw :
    Let(IF st.next_move = st.i
        THEN StartContour(IF st.i # 0 THEN stt__close_shape(st) ELSE st,
                          endPtsOfContours, raw)
        ELSE IF ~Bit(raw.type, 1)
        THEN [(IF st.was_off
               THEN SetVertex(st, STT_vcurve, (st.cx + raw.x) \div 2,
                              (st.cy + raw.y) \div 2, st.cx, st.cy)
               ELSE st) EXCEPT !.cx = raw.x, !.cy = raw.y, !.was_off = TRUE]
        ELSE [(IF st.was_off
               THEN SetVertex(st, STT_vcurve, raw.x, raw.y, st.cx, st.cy)
               ELSE SetVertex(st, STT_vline, raw.x, raw.y, 0, 0))
              EXCEPT !.was_off = FALSE], LAMBDA s1 :
        ConvertPoints([s1 EXCEPT !.i = @ + 1], n, endPtsOfContours)))

\* the branch numberOfContours > 0 of stt__GetGlyphShapeTT, the allocation of
\* the vertex array succeeding
SimpleGlyphShape(g, numberOfContours, alloc) ==
    Let(PtrAdd(g, 10), LAMBDA endPtsOfContours :
    Let(ttUSHORT(PtrAdd(g, 10 + numberOfContours * 2)), LAMBDA ins :
    Let(ttUSHORT(PtrAdd(endPtsOfContours, numberOfContours * 2 - 2)), LAMBDA last :
    Let(1 + last.v, LAMBDA n :
    \* if (vertices == 0) return 0;
    IF ~alloc
    THEN [v |-> 0, pv |-> FALSE, verts |-> <<>>, oob |-> ins.oob \/ last.oob, heap |-> FALSE,
          clobber |-> FALSE]
    ELSE
    Let(LoadFlags(PtrAdd(g, 10 + numberOfContours * 2 + 2 + ins.v), 0, n, 0, 0, <<>>,
                  ins.oob \/ last.oob), LAMBDA types :
    Let(LoadCoords(types.points, types.v, 2, 16, 0, 0, <<>>, types.oob), LAMBDA xs :
    Let(LoadCoords(xs.points, types.v, 4, 32, 0, 0, <<>>, xs.oob), LAMBDA ys :
    Let(ConvertPoints(
            [i |-> 0, j |-> 0, num_vertices |-> 0, next_move |-> 0, off |-> 2 * numberOfContours,
             was_off |-> FALSE, start_off |-> FALSE,
             sx |-> 0, sy |-> 0, cx |-> 0, cy |-> 0, scx |-> 0, scy |-> 0,
             vs |-> [k \in 1..(n + 2 * numberOfContours) |->
                        IF k <= 2 * numberOfContours
                        THEN [type |-> 0, x |-> 0, y |-> 0, cx |-> 0, cy |-> 0]
                        ELSE [type |-> types.v[k - 2 * numberOfContours],
                              x    |-> xs.v[k - 2 * numberOfContours],
                              y    |-> ys.v[k - 2 * numberOfContours],
                              cx |-> 0, cy |-> 0]],
             heap |-> FALSE, clobber |-> FALSE, oob |-> ys.oob], n, endPtsOfContours),
        LAMBDA st :
    Let(stt__close_shape(st), LAMBDA end :
        [v     |-> end.num_vertices,
         pv    |-> TRUE,
         verts |-> SubSeq(end.vs, 1, IF end.num_vertices < Len(end.vs)
                                     THEN end.num_vertices ELSE Len(end.vs)),
         oob   |-> end.oob,
         heap  |-> end.heap,
         clobber |-> end.clobber])))))))))

\* stt__GetGlyphShapeTT for a glyph that is not a composite: the number of
\* vertices in v, whether *pvertices is not NULL in pv, the array in verts.
\* alloc says whether STT_malloc yields memory.
stt__GetGlyphShapeTT(glyph_index, alloc) ==
    Let(stt__GetGlyfOffset(glyph_index), LAMBDA g :
    IF g.v < 0 THEN [v |-> 0, pv |-> FALSE, verts |-> <<>>, oob |-> g.oob, heap |-> FALSE]
    ELSE Let(ttSHORT(g.v), LAMBDA numberOfContours :
         CASE numberOfContours.v > 0 ->
                  Let(SimpleGlyphShape(g.v, numberOfContours.v, alloc), LAMBDA r :
                      [r EXCEPT !.oob = @ \/ g.oob \/ numberOfContours.oob])
           [] numberOfContours.v = 0 ->
                  [v |-> 0, pv |-> FALSE, verts |-> <<>>,
                   oob |-> g.oob \/ numberOfContours.oob, heap |-> FALSE]))

----------------------------------------------------------------------------
(* Composite glyphs                                                        *)
(*                                                                         *)
(* stt__GetGlyphShapeTT calls stt_GetGlyphShape for each component, so the *)
(* calls under way form a stack of activations.  An activation is at       *)
(* "entry" when it has just been called, at "loop" before a component      *)
(* record, at "called" while the call for a component runs, and at         *)
(* "return" when it has its result: num_vertices, and pv and vertices for  *)
(* *pvertices.  A matrix entry mtx[0..3] is held as the F2DOT14 number     *)
(* read, in units of 1/16384; float arithmetic is exact on the transforms  *)
(* checked, whose matrices have no more than one entry in a column.        *)

Abs(v) == IF v < 0 THEN -v ELSE v

Activation(glyph_index) ==
    [glyph_index |-> glyph_index, at |-> "entry", comp |-> 0, flags |-> 0,
     mtx |-> <<16384, 0, 0, 16384, 0, 0>>, num_vertices |-> 0, vertices |-> <<>>,
     pv |-> FALSE]

ttCHAR(p) ==
    [v |-> IF Load(p) >= 128 THEN Load(p) - 256 ELSE Load(p), oob |-> ~InBuf(p)]

\* stt__GetGlyphShapeTT up to the loop over the components.  alloc says
\* whether STT_malloc yields memory.
EnterShape(f, alloc) ==
    Let(stt__GetGlyfOffset(f.glyph_index), LAMBDA g :
    IF g.v < 0 THEN [f |-> [f EXCEPT !.at = "return"], oob |-> g.oob, heap |-> FALSE]
    ELSE Let(ttSHORT(g.v), LAMBDA numberOfContours :
         IF numberOfContours.v > 0
         THEN Let(SimpleGlyphShape(g.v, numberOfContours.v, alloc), LAMBDA r :
                  [f    |-> [f EXCEPT !.at = "return", !.num_vertices = r.v, !.pv = r.pv,
                                      !.vertices = r.verts],
                   oob  |-> r.oob \/ g.oob \/ numberOfContours.oob,
                   heap |-> r.heap])
         ELSE IF numberOfContours.v < 0
         THEN [f    |-> [f EXCEPT !.at = "loop", !.comp = PtrAdd(g.v, 10)],
               oob  |-> g.oob \/ numberOfContours.oob, heap |-> FALSE]
         ELSE [f    |-> [f EXCEPT !.at = "return"],
               oob  |-> g.oob \/ numberOfContours.oob, heap |-> FALSE]))

\* the offsets of a component: mtx[4] and mtx[5], and the bytes they take.
\* Matching points are not handled: STT_assert(0).
ComponentOffsets(comp, flags) ==
    IF Bit(flags, 2)
    THEN IF Bit(flags, 1)
         THEN Let(ttSHORT(comp), LAMBDA x :
              Let(ttSHORT(PtrAdd(comp, 2)), LAMBDA y :
                  [x |-> x.v, y |-> y.v, size |-> 4, oob |-> x.oob \/ y.oob,
                   asrt |-> FALSE]))
         ELSE Let(ttCHAR(comp), LAMBDA x :
              Let(ttCHAR(PtrAdd(comp, 1)), LAMBDA y :
                  [x |-> x.v, y |-> y.v, size |-> 2, oob |-> x.oob \/ y.oob,
                   asrt |-> FALSE]))
    ELSE [x |-> 0, y |-> 0, size |-> 0, oob |-> FALSE, asrt |-> ~ndebug]

\* mtx[0..3] of a component, and the bytes they take
ComponentScale(comp, flags) ==
    IF Bit(flags, 8)
    THEN Let(ttSHORT(comp), LAMBDA a :
             [m |-> <<a.v, 0, 0, a.v>>, size |-> 2, oob |-> a.oob])
    ELSE IF Bit(flags, 64)
    THEN Let(ttSHORT(comp), LAMBDA a :
         Let(ttSHORT(PtrAdd(comp, 2)), LAMBDA d :
             [m |-> <<a.v, 0, 0, d.v>>, size |-> 4, oob |-> a.oob \/ d.oob]))
    ELSE IF Bit(flags, 128)
    THEN Let(ttSHORT(comp), LAMBDA a :
         Let(ttSHORT(PtrAdd(comp, 2)), LAMBDA b :
         Let(ttSHORT(PtrAdd(comp, 4)), LAMBDA c :
         Let(ttSHORT(PtrAdd(comp, 6)), LAMBDA d :
             [m |-> <<a.v, b.v, c.v, d.v>>, size |-> 8,
              oob |-> a.oob \/ b.oob \/ c.oob \/ d.oob]))))
    ELSE [m |-> <<16384, 0, 0, 16384>>, size |-> 0, oob |-> FALSE]

\* One component record, up to the call of stt_GetGlyphShape(info, gidx, ...):
\* the activation with the record taken in, and gidx.
ReadComponentRecord(f) ==
    Let(ttUSHORT(f.comp), LAMBDA flags :
    Let(ttUSHORT(PtrAdd(f.comp, 2)), LAMBDA gidx :
    Let(ComponentOffsets(PtrAdd(f.comp, 4), flags.v), LAMBDA xy :
    Let(ComponentScale(PtrAdd(f.comp, 4 + xy.size), flags.v), LAMBDA scale :
        [f    |-> [f EXCEPT !.at = "called", !.flags = flags.v,
                            !.comp = PtrAdd(f.comp, 4 + xy.size + scale.size),
                            !.mtx = scale.m \o <<xy.x, xy.y>>],
         gidx |-> gidx.v,
         oob  |-> flags.oob \/ gidx.oob \/ xy.oob \/ scale.oob,
         asrt |-> xy.asrt]))))

\* the integer square root
RECURSIVE SqrtBetween(_, _, _)
SqrtBetween(v, lo, hi) ==
    IF lo >= hi THEN lo
    ELSE Let((lo + hi + 1) \div 2, LAMBDA mid :
             IF mid * mid <= v THEN SqrtBetween(v, mid, hi) ELSE SqrtBetween(v, lo, mid - 1))

\* (float) STT_sqrt(a*a + b*b), in units of 1/16384
Norm(a, b) ==
    IF b = 0 THEN Abs(a) ELSE IF a = 0 THEN Abs(b) ELSE SqrtBetween(a * a + b * b, 0, 46340)

\* (stt_vertex_type)(m * (a*x + c*y + d)), m, a and c in units of 1/16384
TransformCoord(m, a, c, d, x, y) ==
    Let(a * x + c * y + 16384 * d, LAMBDA t :
    Let(m * (Abs(t) \div 16384) + (m * (Abs(t) % 16384)) \div 16384, LAMBDA p :
        ToInt16(((IF t < 0 THEN -1 ELSE 1) * (p \div 16384)) % 65536)))

TransformVertex(mtx, v) ==
    Let(Norm(mtx[1], mtx[2]), LAMBDA m :
    Let(Norm(mtx[3], mtx[4]), LAMBDA n :
        [v EXCEPT !.x  = TransformCoord(m, mtx[1], mtx[3], mtx[5], v.x, v.y),
                  !.y  = TransformCoord(n, mtx[2], mtx[4], mtx[6], v.x, v.y),
                  !.cx = TransformCoord(m, mtx[1], mtx[3], mtx[5], v.cx, v.cy),
                  !.cy = TransformCoord(n, mtx[2], mtx[4], mtx[6], v.cx, v.cy)]))

\* The rest of the loop body once the call for the component has returned
\* what the activation r holds: transform and append its vertices.  alloc
\* says whether the STT_malloc of the longer array yields memory.
AppendComponent(f, r, alloc) ==
    IF r.num_vertices > 0 /\ ~alloc
    THEN [f EXCEPT !.at = "return", !.num_vertices = 0, !.vertices = <<>>, !.pv = FALSE]
    ELSE Let(IF r.num_vertices > 0
             THEN [f EXCEPT !.vertices = @ \o [i \in 1..Len(r.vertices) |->
                                                  TransformVertex(f.mtx, r.vertices[i])],
                            !.num_vertices = @ + r.num_vertices,
                            !.pv = TRUE]
             ELSE f, LAMBDA f1 :
             [f1 EXCEPT !.at = IF Bit(f.flags, 32) THEN "loop" ELSE "return"])

----------------------------------------------------------------------------
(* The edge list of the rasterizer                                         *)
(*                                                                         *)
(* An edge is [x0, y0, x1, y1, invert].  The sorting functions work on     *)
(* [a, bad]: a is the whole array and bad says that some p[k] was used     *)
(* with k outside [0, n-1], p and n being the arguments of the function    *)
(* that used it.  The entry p[k] is a[p + k + 1].                          *)

STT__COMPARE(a, b) == a.y0 < b.y0

\* p[k] is used by a function that was given p and n
Use(s, n, k) == [s EXCEPT !.bad = @ \/ k < 0 \/ k >= n]

\* p[k] is in the memory of the array
Mapped(s, p, k) == 0 <= p + k /\ p + k < Len(s.a)

\* t = p[i]; p[i] = p[j]; p[j] = t
SwapEdges(s, p, n, i, j) ==
    Let(Use(Use(s, n, i), n, j), LAMBDA s1 :
        IF Mapped(s, p, i) /\ Mapped(s, p, j)
        THEN [s1 EXCEPT !.a = [@ EXCEPT ![p + i + 1] = s.a[p + j + 1],
                                        ![p + j + 1] = s.a[p + i + 1]]]
        ELSE s1)

\* the while loop of stt__sort_edges_ins_sort: the edges before p[j] that
\* come after t move up by one
RECURSIVE InsertionLoop(_, _, _, _)
InsertionLoop(s, n, t, j) ==
    IF j > 0 /\ Mapped(s, 0, j - 1) /\ Mapped(s, 0, j) /\ STT__COMPARE(t, s.a[j])
    THEN InsertionLoop([Use(Use(s, n, j - 1), n, j) EXCEPT !.a[j + 1] = s.a[j]], n, t, j - 1)
    ELSE [s |-> IF j > 0 THEN Use(s, n, j - 1) ELSE s, j |-> j]

\* the for loop of stt__sort_edges_ins_sort, from i on
RECURSIVE InsertionSortFrom(_, _, _)
InsertionSortFrom(s, n, i) ==
    IF i < n /\ Mapped(s, 0, i)
    THEN Let(s.a[i + 1], LAMBDA t :
         Let(InsertionLoop(Use(s, n, i), n, t, i), LAMBDA r :
             InsertionSortFrom(IF i # r.j THEN [Use(r.s, n, r.j) EXCEPT !.a[r.j + 1] = t]
                               ELSE r.s, n, i + 1)))
    ELSE IF i < n THEN Use(s, n, i) ELSE s

stt__sort_edges_ins_sort(s, n) == InsertionSortFrom(s, n, 1)

\* a partition whose pivot is p[0] as it comes
PivotAsItComes(s, p, n) == s

\* The median of p[0], p[m] and p[n-1] is swapped to p[m] and then to p[0].
MedianToFront(s, p, n) ==
    Let(n \div 2, LAMBDA m :
    Let(STT__COMPARE(s.a[p + 1], s.a[p + m + 1]), LAMBDA c01 :
    Let(STT__COMPARE(s.a[p + m + 1], s.a[p + n]), LAMBDA c12 :
    Let(IF c01 # c12
        THEN Let(STT__COMPARE(s.a[p + 1], s.a[p + n]), LAMBDA c :
                 SwapEdges(s, p, n, IF c = c12 THEN 0 ELSE n - 1, m))
        ELSE s, LAMBDA s1 :
        SwapEdges(s1, p, n, 0, m)))))

\* for (;;++i) if (!STT__COMPARE(&p[i], &p[0])) break;
RECURSIVE ScanUp(_, _, _, _)
ScanUp(s, p, n, i) ==
    IF Mapped(s, p, i) /\ STT__COMPARE(s.a[p + i + 1], s.a[p + 1])
    THEN ScanUp(Use(s, n, i), p, n, i + 1)
    ELSE [s |-> Use(s, n, i), i |-> i]

\* for (;;--j) if (!STT__COMPARE(&p[0], &p[j])) break;
RECURSIVE ScanDown(_, _, _, _)
ScanDown(s, p, n, j) ==
    IF Mapped(s, p, j) /\ STT__COMPARE(s.a[p + 1], s.a[p + j + 1])
    THEN ScanDown(Use(s, n, j), p, n, j - 1)
    ELSE [s |-> Use(s, n, j), j |-> j]

\* the partition loop
RECURSIVE Partition(_, _, _, _, _)
Partition(s, p, n, i, j) ==
    Let(ScanUp(s, p, n, i), LAMBDA up :
    Let(ScanDown(up.s, p, n, j), LAMBDA down :
        IF up.i >= down.j THEN [s |-> down.s, i |-> up.i, j |-> down.j]
        ELSE Partition(SwapEdges(down.s, p, n, up.i, down.j), p, n, up.i + 1, down.j - 1)))

RECURSIVE stt__sort_edges_quicksort(_, _, _)
stt__sort_edges_quicksort(s, p, n) ==
    IF n > 12
    THEN Let(MedianToFront(s, p, n), LAMBDA s1 :
         Let(Partition(s1, p, n, 1, n - 1), LAMBDA r :
             IF r.j < n - r.i
             THEN stt__sort_edges_quicksort(stt__sort_edges_quicksort(r.s, p, r.j),
                                            p + r.i, n - r.i)
             ELSE stt__sort_edges_quicksort(stt__sort_edges_quicksort(r.s, p + r.i, n - r.i),
                                            p, r.j)))
    ELSE s

\* stt__sort_edges(p, n) on the array a of n edges
stt__sort_edges(a) ==
    stt__sort_edges_ins_sort(stt__sort_edges_quicksort([a |-> a, bad |-> FALSE], 0, Len(a)),
                             Len(a))

----------------------------------------------------------------------------
(* The analytic rasterizer                                                 *)
(*                                                                         *)
(* Coordinates are kept in units of 1/Grid of a pixel: the points handed   *)
(* to stt__rasterize are in these units, scale_x and scale_y are 1/Grid    *)
(* and shift_x and shift_y are 0, so that the top of row y is Grid * y.    *)
(* Only what decides which edges are active is kept of an active edge:     *)
(* sy, ey and whether fdx is 0.  The coverage written to the bitmap is not *)
(* modelled.                                                               *)

Grid == 2

\* the loop of stt__rasterize over the points p of one winding: the edges
\* from p[j] to p[k], from k on
RECURSIVE WindingEdges(_, _, _, _, _)
WindingEdges(p, invert, k, j, e) ==
    IF k >= Len(p) THEN e
    ELSE IF p[j + 1].y = p[k + 1].y THEN WindingEdges(p, invert, k + 1, k, e)
    ELSE Let(IF invert THEN p[j + 1].y > p[k + 1].y ELSE p[j + 1].y < p[k + 1].y, LAMBDA inv :
         Let(IF inv THEN p[j + 1] ELSE p[k + 1], LAMBDA a :
         Let(IF inv THEN p[k + 1] ELSE p[j + 1], LAMBDA b :
             WindingEdges(p, invert, k + 1, k,
                          Append(e, [x0 |-> a.x, y0 |-> IF invert THEN -a.y ELSE a.y,
                                     x1 |-> b.x, y1 |-> IF invert THEN -b.y ELSE b.y,
                                     invert |-> IF inv THEN 1 ELSE 0])))))

\* the edges of all windings
RECURSIVE AllEdges(_, _, _, _)
AllEdges(windings, invert, i, e) ==
    IF i > Len(windings) THEN e
    ELSE AllEdges(windings, invert, i + 1,
                  IF windings[i] = <<>> THEN e
                  ELSE WindingEdges(windings[i], invert, 0, Len(windings[i]) - 1, e))

\* stt__rasterize up to the loop over the rows of stt__rasterize_sorted_edges:
\* the edges are sorted and e[n] is the sentinel.  alloc says whether the
\* STT_malloc of the edges yields memory.
StartRows(windings, invert, off_y, h, alloc) ==
    IF ~alloc THEN [at |-> "done"]
    ELSE [at     |-> IF 0 < h THEN "remove" ELSE "done",
          e      |-> stt__sort_edges(AllEdges(windings, invert, 1, <<>>)).a
                     \o << [x0 |-> 0, y0 |-> Grid * (off_y + h + 1), x1 |-> 0, y1 |-> 0,
                            invert |-> 0] >>,
          next   |-> 0,
          active |-> <<>>,
          chunk  |-> FALSE,
          j      |-> 0,
          y      |-> off_y,
          off_y  |-> off_y,
          h      |-> h,
          failed |-> "none"]

\* the first loop of a row: the active edges that end at or above the top of
\* the row leave the list
RemoveEndedEdges(r) ==
    [r EXCEPT !.active = SelectSeq(@, LAMBDA z : ~(z.ey <= Grid * r.y)), !.at = "insert"]

\* stt__new_active
stt__new_active(e) == [sy |-> e.y0, ey |-> e.y1, vertical |-> e.x1 = e.x0]

\* One iteration of the second loop of a row, or its end: the edge at e
\* joins the list if it starts at or above the bottom of the row and is not
\* flat.  alloc says whether an STT_malloc of the heap yields memory.
InsertNextEdge(r, alloc) ==
    Let(r.e[r.next + 1], LAMBDA e :
    IF ~(e.y0 <= Grid * (r.y + 1)) THEN [r EXCEPT !.at = "fill"]
    ELSE IF e.y0 = e.y1 THEN [r EXCEPT !.next = @ + 1]
    ELSE IF ~r.chunk /\ ~alloc
    THEN IF ndebug THEN [r EXCEPT !.next = @ + 1]
         ELSE [r EXCEPT !.at = "aborted", !.failed = "z != NULL"]
    ELSE Let(stt__new_active(e), LAMBDA z0 :
         Let(IF r.j = 0 /\ r.off_y # 0 /\ z0.ey < Grid * r.y
             THEN [z0 EXCEPT !.ey = Grid * r.y] ELSE z0, LAMBDA z :
             IF ~ndebug /\ ~(z.ey >= Grid * r.y)
             THEN [r EXCEPT !.at = "aborted", !.failed = "z->ey >= scan_y_top", !.chunk = TRUE]
             ELSE [r EXCEPT !.active = <<z>> \o @, !.chunk = TRUE, !.next = @ + 1])))

\* the assertions of stt__fill_active_edges_new hold of an active edge
FillAsserts(z, y_top) ==
    /\ z.ey >= y_top
    /\ z.vertical \/ (z.sy <= y_top + Grid /\ z.ey >= y_top)

\* the rest of a row: coverage is accumulated from the active edges, the row
\* is written and the next one is begun
FillRow(r) ==
    IF ~ndebug /\ \E i \in DOMAIN r.active : ~FillAsserts(r.active[i], Grid * r.y)
    THEN [r EXCEPT !.at = "aborted", !.failed = "e->ey >= y_top"]
    ELSE [r EXCEPT !.y = @ + 1, !.j = @ + 1,
                   !.at = IF r.j + 1 < r.h THEN "remove" ELSE "done"]

----------------------------------------------------------------------------
(* Type 2 charstrings                                                      *)
(*                                                                         *)
(* A float is held as an integer in units of 1/65536, so that a 16.16      *)
(* operand is its own 32-bit value and the integer v is v * 65536.  Float  *)
(* arithmetic is exact on such numbers of magnitude below 256, which is    *)
(* where the charstrings checked keep every coordinate.                    *)

STT_vcubic == 4

\* (float) of an int, and (int) of a float (truncation towards zero)
ToFloat(v) == v * 65536
ToInt(f) == IF f >= 0 THEN f \div 65536 ELSE -((-f) \div 65536)

\* STT__CSCTX_INIT(bounds); in output mode pvertices has room for `room` entries
CsctxInit(bounds, room) ==
    [bounds |-> bounds, started |-> FALSE, first_x |-> 0, first_y |-> 0, x |-> 0, y |-> 0,
     min_x |-> 0, max_x |-> 0, min_y |-> 0, max_y |-> 0,
     pvertices |-> <<>>, room |-> room, num_vertices |-> 0, heap |-> FALSE]

stt__track_vertex(c, x, y) ==
    [c EXCEPT !.max_x = IF x > c.max_x \/ ~c.started THEN x ELSE @,
              !.max_y = IF y > c.max_y \/ ~c.started THEN y ELSE @,
              !.min_x = IF x < c.min_x \/ ~c.started THEN x ELSE @,
              !.min_y = IF y < c.min_y \/ ~c.started THEN y ELSE @,
              !.started = TRUE]

\* a store at pvertices[num_vertices] beyond the allocation is recorded in heap
stt__csctx_v(c, type, x, y, cx, cy, cx1, cy1) ==
    IF c.bounds
    THEN Let(stt__track_vertex(c, x, y), LAMBDA c1 :
             [(IF type = STT_vcubic
               THEN stt__track_vertex(stt__track_vertex(c1, cx, cy), cx1, cy1)
               ELSE c1) EXCEPT !.num_vertices = @ + 1])
    ELSE IF c.num_vertices < c.room
    THEN [c EXCEPT !.pvertices = Append(@,
                       [type |-> type, x |-> ToInt16(x % 65536), y |-> ToInt16(y % 65536),
                        cx |-> ToInt16(cx % 65536), cy |-> ToInt16(cy % 65536),
                        cx1 |-> ToInt16(cx1 % 65536), cy1 |-> ToInt16(cy1 % 65536)]),
                   !.num_vertices = @ + 1]
    ELSE [c EXCEPT !.num_vertices = @ + 1, !.heap = TRUE]

stt__csctx_close_shape(ctx) ==
    IF ctx.first_x # ctx.x \/ ctx.first_y # ctx.y
    THEN stt__csctx_v(ctx, STT_vline, ToInt(ctx.first_x), ToInt(ctx.first_y), 0, 0, 0, 0)
    ELSE ctx

stt__csctx_rmove_to(ctx, dx, dy) ==
    Let(stt__csctx_close_shape(ctx), LAMBDA c :
        stt__csctx_v([c EXCEPT !.x = @ + dx, !.first_x = c.x + dx,
                               !.y = @ + dy, !.first_y = c.y + dy],
                     STT_vmove, ToInt(c.x + dx), ToInt(c.y + dy), 0, 0, 0, 0))

stt__csctx_rline_to(ctx, dx, dy) ==
    stt__csctx_v([ctx EXCEPT !.x = @ + dx, !.y = @ + dy],
                 STT_vline, ToInt(ctx.x + dx), ToInt(ctx.y + dy), 0, 0, 0, 0)

stt__csctx_rccurve_to(ctx, dx1, dy1, dx2, dy2, dx3, dy3) ==
    stt__csctx_v([ctx EXCEPT !.x = @ + dx1 + dx2 + dx3, !.y = @ + dy1 + dy2 + dy3],
                 STT_vcubic,
                 ToInt(ctx.x + dx1 + dx2 + dx3), ToInt(ctx.y + dy1 + dy2 + dy3),
                 ToInt(ctx.x + dx1), ToInt(ctx.y + dy1),
                 ToInt(ctx.x + dx1 + dx2), ToInt(ctx.y + dy1 + dy2))

stt__get_subr(idx, n) ==
    Let(stt__cff_index_count(idx), LAMBDA count :
    Let(n + (IF count.v >= 33900 THEN 32768 ELSE IF count.v >= 1240 THEN 1131 ELSE 107),
        LAMBDA k :
        IF k < 0 \/ k >= count.v THEN [v |-> NullBuf, oob |-> count.oob, asrt |-> FALSE]
        ELSE Let(stt__cff_index_get(idx, k), LAMBDA r :
                 [r EXCEPT !.oob = @ \/ count.oob])))

\* the loop over the ranges of an FDSelect of format 3: yields fdselector
RECURSIVE FdRanges(_, _, _, _, _, _)
FdRanges(fdselect, glyph_index, i, nranges, start, o) ==
    IF i >= nranges THEN [v |-> -1, oob |-> o]
    ELSE Let(stt__buf_get8(fdselect), LAMBDA v :
         Let(stt__buf_get(v.b, 2), LAMBDA end :
             IF glyph_index >= start /\ glyph_index < end.v
             THEN [v |-> v.v, oob |-> o \/ v.oob \/ end.oob]
             ELSE FdRanges(end.b, glyph_index, i + 1, nranges, end.v,
                           o \/ v.oob \/ end.oob)))

\* when fdselector is -1 the empty buffer is built and dropped, and the font
\* DICT of index -1 is looked up
stt__cid_get_glyph_subrs(glyph_index) ==
    Let(stt__buf_get8(stt__buf_seek(info.fdselect, 0)), LAMBDA fmt :
    Let(IF fmt.v = 0
        THEN Let(stt__buf_get8(stt__buf_skip(fmt.b, glyph_index)), LAMBDA r :
                 [v |-> r.v, oob |-> r.oob])
        ELSE IF fmt.v = 3
        THEN Let(stt__buf_get(fmt.b, 2), LAMBDA nranges :
             Let(stt__buf_get(nranges.b, 2), LAMBDA start :
                 FdRanges(start.b, glyph_index, 0, nranges.v, start.v,
                          nranges.oob \/ start.oob)))
        ELSE [v |-> -1, oob |-> FALSE], LAMBDA fdselector :
    Let(stt__cff_index_get(info.fontdicts, fdselector.v), LAMBDA dict :
        IF dict.asrt
        THEN [v |-> NullBuf, oob |-> fmt.oob \/ fdselector.oob \/ dict.oob, asrt |-> TRUE]
        ELSE Let(stt__get_subrs(info.cff, dict.v), LAMBDA r :
                 [r EXCEPT !.oob = @ \/ fmt.oob \/ fdselector.oob \/ dict.oob]))))

\* s[k] of the operand stack s (a sequence of sp numbers)
S(s, k) == s[k + 1]

\* for (; i + 1 < limit; i += 2) stt__csctx_rline_to(c, s[i], s[i+1]);
RECURSIVE RLines(_, _, _, _)
RLines(c, s, i, limit) ==
    IF i + 1 < limit
    THEN RLines(stt__csctx_rline_to(c, S(s, i), S(s, i + 1)), s, i + 2, limit)
    ELSE [c |-> c, i |-> i]

\* for (; i + 5 < limit; i += 6) stt__csctx_rccurve_to(c, s[i], ..., s[i+5]);
RECURSIVE RCurves(_, _, _, _)
RCurves(c, s, i, limit) ==
    IF i + 5 < limit
    THEN RCurves(stt__csctx_rccurve_to(c, S(s, i), S(s, i + 1), S(s, i + 2), S(s, i + 3),
                                       S(s, i + 4), S(s, i + 5)), s, i + 6, limit)
    ELSE [c |-> c, i |-> i]

\* the loop shared by hlineto (horizontal first) and vlineto
RECURSIVE AlternateLines(_, _, _, _)
AlternateLines(c, s, i, horizontal) ==
    IF i >= Len(s) THEN c
    ELSE AlternateLines(IF horizontal THEN stt__csctx_rline_to(c, S(s, i), 0)
                        ELSE stt__csctx_rline_to(c, 0, S(s, i)),
                        s, i + 1, ~horizontal)

\* the loop shared by vhcurveto (vertical first) and hvcurveto
RECURSIVE AlternateCurves(_, _, _, _)
AlternateCurves(c, s, i, vertical) ==
    IF i + 3 >= Len(s) THEN c
    ELSE Let(IF Len(s) - i = 5 THEN S(s, i + 4) ELSE 0, LAMBDA last :
             AlternateCurves(
                 IF vertical
                 THEN stt__csctx_rccurve_to(c, 0, S(s, i), S(s, i + 1), S(s, i + 2),
                                            S(s, i + 3), last)
                 ELSE stt__csctx_rccurve_to(c, S(s, i), 0, S(s, i + 1), S(s, i + 2),
                                            last, S(s, i + 3)),
                 s, i + 4, ~vertical))

\* for (; i + 3 < sp; i += 4) { ... f = 0.0; } of vvcurveto and hhcurveto
RECURSIVE SameCurves(_, _, _, _, _)
SameCurves(c, s, i, f, b0) ==
    IF i + 3 >= Len(s) THEN c
    ELSE SameCurves(IF b0 = 27
                    THEN stt__csctx_rccurve_to(c, S(s, i), f, S(s, i + 1), S(s, i + 2),
                                               S(s, i + 3), 0)
                    ELSE stt__csctx_rccurve_to(c, f, S(s, i), S(s, i + 1), S(s, i + 2),
                                               0, S(s, i + 3)),
                    s, i + 4, 0, b0)


\* the operands hflex, flex, hflex1 and flex1 check for: if (sp < n) return
FlexOperands(b1) == CASE b1 = 34 -> 7 [] b1 = 35 -> 13 [] b1 = 36 -> 9 [] b1 = 37 -> 11

\* the two curves of a flex operator whose operands are there
FlexCurves(c, s, b1) ==
    CASE b1 = 34 ->
             stt__csctx_rccurve_to(
                 stt__csctx_rccurve_to(c, S(s, 0), 0, S(s, 1), S(s, 2), S(s, 3), 0),
                 S(s, 4), 0, S(s, 5), -S(s, 2), S(s, 6), 0)
      [] b1 = 35 ->
             stt__csctx_rccurve_to(
                 stt__csctx_rccurve_to(c, S(s, 0), S(s, 1), S(s, 2), S(s, 3), S(s, 4),
                                       S(s, 5)),
                 S(s, 6), S(s, 7), S(s, 8), S(s, 9), S(s, 10), S(s, 11))
      [] b1 = 36 ->
             stt__csctx_rccurve_to(
                 stt__csctx_rccurve_to(c, S(s, 0), S(s, 1), S(s, 2), S(s, 3), S(s, 4), 0),
                 S(s, 5), 0, S(s, 6), S(s, 7), S(s, 8),
                 -(S(s, 1) + S(s, 3) + S(s, 7)))
      [] b1 = 37 ->
             Let(S(s, 0) + S(s, 2) + S(s, 4) + S(s, 6) + S(s, 8), LAMBDA dx :
             Let(S(s, 1) + S(s, 3) + S(s, 5) + S(s, 7) + S(s, 9), LAMBDA dy :
                 stt__csctx_rccurve_to(
                     stt__csctx_rccurve_to(c, S(s, 0), S(s, 1), S(s, 2), S(s, 3),
                                           S(s, 4), S(s, 5)),
                     S(s, 6), S(s, 7), S(s, 8), S(s, 9),
                     IF Abs(dx) > Abs(dy) THEN S(s, 10) ELSE -dx,
                     IF Abs(dx) > Abs(dy) THEN -dy ELSE S(s, 10))))

\* case 0x0C, the two-byte escape: ok is FALSE for return STT__CSERR(...)
Flex(c, s, b1) ==
    IF b1 \notin 34..37 THEN [ok |-> FALSE, c |-> c]
    ELSE IF Len(s) < FlexOperands(b1) THEN [ok |-> FALSE, c |-> c]
    ELSE [ok |-> TRUE, c |-> FlexCurves(c, s, b1)]

\* no stt__run_charstring is under way
NoRun == [r |-> "none"]

\* no stt__rasterize_sorted_edges is under way
NoRas == [at |-> "none"]

\* The state of stt__run_charstring between two iterations of its loop: the
\* locals, the context c, and r = "run" while the loop runs, "1" after
\* return 1, "0" after return STT__CSERR(...).  s holds s[0..sp-1].
CsStart(b, c) ==
    [b |-> b.v, s |-> <<>>, in_header |-> TRUE, maskbits |-> 0, subr_stack |-> <<>>,
     has_subrs |-> FALSE, subrs |-> info.subrs, c |-> c,
     oob |-> b.oob, asrt |-> b.asrt, r |-> IF b.asrt THEN "0" ELSE "run"]

CsErr(m) == [m EXCEPT !.r = "0"]
\* break with clear_stack still set: sp = 0
CsClear(m, c) == [m EXCEPT !.c = c, !.s = <<>>]

\* a call that does not put the calling buffer on the subr stack
CallSubrForgettingCaller(m, b0, glyph_index) ==
    Let(IF b0 = 10 /\ ~m.has_subrs /\ info.fdselect.size # 0
        THEN stt__cid_get_glyph_subrs(glyph_index)
        ELSE [v |-> m.subrs, oob |-> FALSE, asrt |-> FALSE], LAMBDA subrs :
    Let([m EXCEPT !.subrs = subrs.v, !.has_subrs = @ \/ b0 = 10,
                  !.oob = @ \/ subrs.oob], LAMBDA m1 :
    IF subrs.asrt THEN [m1 EXCEPT !.asrt = TRUE, !.r = "0"]
    ELSE IF Len(m1.s) < 1 THEN CsErr(m1)
    ELSE Let(stt__get_subr(IF b0 = 10 THEN m1.subrs ELSE info.gsubrs,
                           ToInt(m1.s[Len(m1.s)])), LAMBDA b :
         Let([m1 EXCEPT !.s = SubSeq(@, 1, Len(@) - 1), !.oob = @ \/ b.oob], LAMBDA m2 :
             IF b.asrt THEN [m2 EXCEPT !.asrt = TRUE, !.r = "0"]
             ELSE IF b.v.size = 0 THEN CsErr([m2 EXCEPT !.b = b.v])
             ELSE [m2 EXCEPT !.b = [b.v EXCEPT !.cursor = 0]]))))

\* case 0x0A and case 0x1D
CallSubr(m, b0, glyph_index) ==
    Let(IF b0 = 10 /\ ~m.has_subrs /\ info.fdselect.size # 0
        THEN stt__cid_get_glyph_subrs(glyph_index)
        ELSE [v |-> m.subrs, oob |-> FALSE, asrt |-> FALSE], LAMBDA subrs :
    Let([m EXCEPT !.subrs = subrs.v, !.has_subrs = @ \/ b0 = 10,
                  !.oob = @ \/ subrs.oob], LAMBDA m1 :
    IF subrs.asrt THEN [m1 EXCEPT !.asrt = TRUE, !.r = "0"]
    ELSE IF Len(m1.s) < 1 THEN CsErr(m1)
    ELSE IF Len(m1.subr_stack) >= 10 THEN CsErr([m1 EXCEPT !.s = SubSeq(@, 1, Len(@) - 1)])
    ELSE Let(stt__get_subr(IF b0 = 10 THEN m1.subrs ELSE info.gsubrs,
                           ToInt(m1.s[Len(m1.s)])), LAMBDA b :
         Let([m1 EXCEPT !.s = SubSeq(@, 1, Len(@) - 1),
                        !.subr_stack = Append(@, m1.b),
                        !.oob = @ \/ b.oob], LAMBDA m2 :
             IF b.asrt THEN [m2 EXCEPT !.asrt = TRUE, !.r = "0"]
             ELSE IF b.v.size = 0 THEN CsErr([m2 EXCEPT !.b = b.v])
             ELSE [m2 EXCEPT !.b = [b.v EXCEPT !.cursor = 0]]))))

\* a push that does not look at sp
PushUnchecked(m, b0) ==
    IF b0.v # 255 /\ b0.v # 28 /\ b0.v < 32 THEN CsErr(m)
    ELSE Let(IF b0.v = 255
             THEN stt__buf_get(b0.b, 4)
             ELSE Let(stt__cff_int(stt__buf_skip(b0.b, -1)), LAMBDA r :
                      [v |-> ToFloat(ToInt16(r.v % 65536)), b |-> r.b, oob |-> r.oob]),
             LAMBDA f : [m EXCEPT !.b = f.b, !.oob = @ \/ f.oob, !.s = Append(@, f.v)])

\* default: of the switch, the push of an immediate
PushImmediate(m, b0) ==
    IF b0.v # 255 /\ b0.v # 28 /\ b0.v < 32 THEN CsErr(m)
    ELSE Let(IF b0.v = 255
             THEN stt__buf_get(b0.b, 4)
             ELSE Let(stt__cff_int(stt__buf_skip(b0.b, -1)), LAMBDA r :
                      [v |-> ToFloat(ToInt16(r.v % 65536)), b |-> r.b, oob |-> r.oob]),
             LAMBDA f :
             IF Len(m.s) >= 48 THEN CsErr([m EXCEPT !.b = f.b, !.oob = @ \/ f.oob])
             ELSE [m EXCEPT !.b = f.b, !.oob = @ \/ f.oob, !.s = Append(@, f.v)])

\* one iteration of while (b.cursor < b.size), b0 being the byte fetched
CsStep(m0, b0, glyph_index) ==
    Let([m0 EXCEPT !.b = b0.b, !.oob = @ \/ b0.oob], LAMBDA m :
    Let(m.s, LAMBDA s :
    Let(Len(m.s), LAMBDA sp :
    CASE b0.v \in {19, 20} ->
             Let(IF m.in_header THEN m.maskbits + sp \div 2 ELSE m.maskbits, LAMBDA mb :
                 [m EXCEPT !.maskbits = mb, !.in_header = FALSE, !.s = <<>>,
                           !.b = stt__buf_skip(m.b, (mb + 7) \div 8)])
      [] b0.v \in {1, 3, 18, 23} ->
             [m EXCEPT !.maskbits = @ + sp \div 2, !.s = <<>>]
      [] b0.v = 21 ->
             IF sp < 2 THEN CsErr([m EXCEPT !.in_header = FALSE])
             ELSE CsClear([m EXCEPT !.in_header = FALSE],
                          stt__csctx_rmove_to(m.c, S(s, sp - 2), S(s, sp - 1)))
      [] b0.v = 4 ->
             IF sp < 1 THEN CsErr([m EXCEPT !.in_header = FALSE])
             ELSE CsClear([m EXCEPT !.in_header = FALSE],
                          stt__csctx_rmove_to(m.c, 0, S(s, sp - 1)))
      [] b0.v = 22 ->
             IF sp < 1 THEN CsErr([m EXCEPT !.in_header = FALSE])
             ELSE CsClear([m EXCEPT !.in_header = FALSE],
                          stt__csctx_rmove_to(m.c, S(s, sp - 1), 0))
      [] b0.v = 5 ->
             IF sp < 2 THEN CsErr(m) ELSE CsClear(m, RLines(m.c, s, 0, sp).c)
      [] b0.v = 7 ->
             IF sp < 1 THEN CsErr(m) ELSE CsClear(m, AlternateLines(m.c, s, 0, FALSE))
      [] b0.v = 6 ->
             IF sp < 1 THEN CsErr(m) ELSE CsClear(m, AlternateLines(m.c, s, 0, TRUE))
      [] b0.v = 31 ->
             IF sp < 4 THEN CsErr(m) ELSE CsClear(m, AlternateCurves(m.c, s, 0, FALSE))
      [] b0.v = 30 ->
             IF sp < 4 THEN CsErr(m) ELSE CsClear(m, AlternateCurves(m.c, s, 0, TRUE))
      [] b0.v = 8 ->
             IF sp < 6 THEN CsErr(m) ELSE CsClear(m, RCurves(m.c, s, 0, sp).c)
      [] b0.v = 24 ->
             IF sp < 8 THEN CsErr(m)
             ELSE Let(RCurves(m.c, s, 0, sp - 2), LAMBDA q :
                      IF q.i + 1 >= sp THEN CsErr([m EXCEPT !.c = q.c])
                      ELSE CsClear(m, stt__csctx_rline_to(q.c, S(s, q.i), S(s, q.i + 1))))
      [] b0.v = 25 ->
             IF sp < 8 THEN CsErr(m)
             ELSE Let(RLines(m.c, s, 0, sp - 6), LAMBDA q :
                      IF q.i + 5 >= sp THEN CsErr([m EXCEPT !.c = q.c])
                      ELSE CsClear(m, stt__csctx_rccurve_to(q.c, S(s, q.i), S(s, q.i + 1),
                                          S(s, q.i + 2), S(s, q.i + 3), S(s, q.i + 4),
                                          S(s, q.i + 5))))
      [] b0.v \in {26, 27} ->
             IF sp < 4 THEN CsErr(m)
             ELSE CsClear(m, SameCurves(m.c, s, sp % 2,
                                        IF sp % 2 = 1 THEN S(s, 0) ELSE 0, b0.v))
      [] b0.v \in {10, 29} -> CallSubr(m, b0.v, glyph_index)
      [] b0.v = 11 ->
             IF Len(m.subr_stack) <= 0 THEN CsErr(m)
             ELSE [m EXCEPT !.b = m.subr_stack[Len(m.subr_stack)],
                            !.subr_stack = SubSeq(@, 1, Len(@) - 1)]
      [] b0.v = 14 ->
             [m EXCEPT !.c = stt__csctx_close_shape(m.c), !.r = "1"]
      [] b0.v = 12 ->
             Let(stt__buf_get8(m.b), LAMBDA b1 :
             Let(Flex(m.c, s, b1.v), LAMBDA q :
                 IF ~q.ok THEN CsErr([m EXCEPT !.b = b1.b, !.oob = @ \/ b1.oob])
                 ELSE CsClear([m EXCEPT !.b = b1.b, !.oob = @ \/ b1.oob], q.c)))
      [] OTHER -> PushImmediate(m, b0))))

\* up to 2^n iterations of while (b.cursor < b.size), as two halves of up to
\* 2^(n-1) each; the loop ends with return STT__CSERR("no endchar")
RECURSIVE CsIterate(_, _, _)
CsIterate(m, glyph_index, n) ==
    IF m.r # "run" THEN m
    ELSE IF n > 0 THEN CsIterate(CsIterate(m, glyph_index, n - 1), glyph_index, n - 1)
    ELSE IF m.b.cursor >= m.b.size THEN CsErr(m)
    ELSE CsStep(m, stt__buf_get8(m.b), glyph_index)

RECURSIVE CsLoop(_, _)
CsLoop(m, glyph_index) ==
    IF m.r # "run" THEN m ELSE CsLoop(CsIterate(m, glyph_index, 6), glyph_index)

\* yields r (the return value), the context c, oob and asrt
stt__run_charstring(glyph_index, c) ==
    Let(CsLoop(CsStart(stt__cff_index_get(info.charstrings, glyph_index), c), glyph_index),
        LAMBDA m : [r |-> IF m.r = "1" THEN 1 ELSE 0, c |-> m.c, oob |-> m.oob,
                    asrt |-> m.asrt])

\* STT_malloc may return NULL: alloc says whether it yields memory.  pv says
\* whether *pvertices is left pointing to an array, verts is that array; a
\* store through the NULL array is recorded in null, one past the array in heap.
stt__GetGlyphShapeT2(glyph_index, alloc) ==
    Let(stt__run_charstring(glyph_index, CsctxInit(TRUE, 0)), LAMBDA count_ctx :
    IF count_ctx.r = 0
    THEN [v |-> 0, pv |-> FALSE, verts |-> <<>>, oob |-> count_ctx.oob,
          asrt |-> count_ctx.asrt, heap |-> FALSE, null |-> FALSE]
    ELSE Let(stt__run_charstring(glyph_index,
                 CsctxInit(FALSE, IF alloc THEN count_ctx.c.num_vertices ELSE 0)),
             LAMBDA output_ctx :
             IF output_ctx.r = 0
             THEN [v |-> 0, pv |-> FALSE, verts |-> <<>>,
                   oob |-> count_ctx.oob \/ output_ctx.oob,
                   asrt |-> output_ctx.asrt, heap |-> output_ctx.c.heap /\ alloc,
                   null |-> output_ctx.c.heap /\ ~alloc]
             ELSE [v |-> output_ctx.c.num_vertices, pv |-> alloc,
                   verts |-> output_ctx.c.pvertices,
                   oob |-> count_ctx.oob \/ output_ctx.oob,
                   asrt |-> output_ctx.asrt
                            \/ (~ndebug
                                /\ output_ctx.c.num_vertices # count_ctx.c.num_vertices),
                   heap |-> output_ctx.c.heap /\ alloc,
                   null |-> output_ctx.c.heap /\ ~alloc]))

\* a variant that reports the bounds collected so far whatever the run returns
GlyphInfoT2KeepingBounds(glyph_index) ==
    Let(stt__run_charstring(glyph_index, CsctxInit(TRUE, 0)), LAMBDA r :
        [v |-> r.c.num_vertices,
         box |-> <<r.c.min_x, r.c.min_y, r.c.max_x, r.c.max_y>>,
         oob |-> r.oob, asrt |-> r.asrt])

\* yields the return value in v and the box written through x0, y0, x1, y1
stt__GetGlyphInfoT2(glyph_index) ==
    Let(stt__run_charstring(glyph_index, CsctxInit(TRUE, 0)), LAMBDA r :
        [v |-> IF r.r # 0 THEN r.c.num_vertices ELSE 0,
         box |-> IF r.r # 0 THEN <<r.c.min_x, r.c.min_y, r.c.max_x, r.c.max_y>>
                 ELSE <<0, 0, 0, 0>>,
         oob |-> r.oob, asrt |-> r.asrt])

----------------------------------------------------------------------------
(* Glyph boxes *)

\* <<0>>, or <<1, x0, y0, x1, y1>>
stt_GetGlyphBox(glyph_index) ==
    IF info.cff.size # 0
    THEN Let(stt__GetGlyphInfoT2(glyph_index), LAMBDA r :
             [v |-> <<1>> \o r.box, oob |-> r.oob, asrt |-> r.asrt])
    ELSE
    LET g == stt__GetGlyfOffset(glyph_index) IN
    IF g.v < 0 THEN [v |-> <<0>>, oob |-> g.oob, asrt |-> FALSE]
    ELSE LET x0 == stt__safe_read16_signed(Add32(g.v, 2))
             y0 == stt__safe_read16_signed(Add32(g.v, 4))
             x1 == stt__safe_read16_signed(Add32(g.v, 6))
             y1 == stt__safe_read16_signed(Add32(g.v, 8))
         IN  [v    |-> <<1, x0.v, y0.v, x1.v, y1.v>>,
              oob  |-> g.oob \/ x0.oob \/ y0.oob \/ x1.oob \/ y1.oob,
              asrt |-> FALSE]

stt_IsGlyphEmpty(glyph_index) ==
    IF info.cff.size # 0
    THEN Let(stt__GetGlyphInfoT2(glyph_index), LAMBDA r :
             [v |-> IF r.v = 0 THEN 1 ELSE 0, oob |-> r.oob, asrt |-> r.asrt])
    ELSE
    LET g == stt__GetGlyfOffset(glyph_index) IN
    IF g.v < 0 THEN [v |-> 1, oob |-> g.oob, asrt |-> FALSE]
    ELSE LET numberOfContours == ttSHORT(g.v)
         IN  [v    |-> IF numberOfContours.v = 0 THEN 1 ELSE 0,
              oob  |-> g.oob \/ numberOfContours.oob,
              asrt |-> FALSE]

stt_GetGlyphShape(glyph_index, alloc) ==
    IF info.cff.size = 0
    THEN Let(stt__GetGlyphShapeTT(glyph_index, alloc), LAMBDA r :
             [v |-> r.v, pv |-> r.pv, verts |-> r.verts, oob |-> r.oob,
              asrt |-> FALSE, heap |-> r.heap, null |-> FALSE])
    ELSE stt__GetGlyphShapeT2(glyph_index, alloc)

----------------------------------------------------------------------------
(* Glyph bitmaps                                                           *)
(*                                                                         *)
(* A scale is a fraction <<numerator, denominator>> whose denominator is a *)
(* power of two: the product of such a float and a small integer is exact. *)

\* STT_ifloor(v * scale) and STT_iceil(v * scale)
ScaledFloor(v, scale) == (v * scale[1]) \div scale[2]
ScaledCeil(v, scale) == -((-(v * scale[1])) \div scale[2])

\* stt_GetGlyphBitmapBox: <<ix0, iy0, ix1, iy1>>
stt_GetGlyphBitmapBox(glyph, scale_x, scale_y) ==
    Let(stt_GetGlyphBox(glyph), LAMBDA box :
        [v |-> IF box.v[1] = 0 THEN <<0, 0, 0, 0>>
               ELSE <<ScaledFloor(box.v[2], scale_x), ScaledFloor(-box.v[5], scale_y),
                      ScaledCeil(box.v[4], scale_x), ScaledCeil(-box.v[3], scale_y)>>,
         oob |-> box.oob, asrt |-> box.asrt])

\* stt_GetGlyphBitmap with every allocation succeeding.  Yields whether the
\* pixel array returned is not NULL in pixels and what is stored through
\* width, height, xoff and yoff in out (<<>> when nothing is stored); the
\* pixels themselves are left out.
stt_GetGlyphBitmap(sx, sy, glyph) ==
    Let(stt_GetGlyphShape(glyph, TRUE), LAMBDA shape :
    IF shape.asrt
    THEN [pixels |-> FALSE, out |-> <<>>, oob |-> shape.oob, heap |-> shape.heap,
          asrt |-> TRUE]
    ELSE Let(IF sx[1] = 0 THEN sy ELSE sx, LAMBDA scale_x :
         IF sy[1] = 0 /\ scale_x[1] = 0
         THEN [pixels |-> FALSE, out |-> <<>>, oob |-> shape.oob, heap |-> shape.heap,
               asrt |-> FALSE]
         ELSE Let(stt_GetGlyphBitmapBox(glyph, scale_x, IF sy[1] = 0 THEN scale_x ELSE sy),
                  LAMBDA box :
              Let(box.v[3] - box.v[1], LAMBDA w :
              Let(box.v[4] - box.v[2], LAMBDA h :
                  [pixels |-> w # 0 /\ h # 0, out |-> <<w, h, box.v[1], box.v[2]>>,
                   oob |-> shape.oob \/ box.oob, heap |-> shape.heap,
                   asrt |-> box.asrt])))))

----------------------------------------------------------------------------
(* Packing glyph bitmaps into an atlas                                     *)
(*                                                                         *)
(* The pack context spc holds the fields of stt_pack_context; pack_info is *)
(* the stbrp_context of the row packer.  The pixel array of pw * ph bytes  *)
(* is held as the list of the areas handed to the rasterizer, in the order *)
(* of the calls: {x, y, w, h, glyph, draws}, draws saying whether bytes    *)
(* are stored.  h_oversample and v_oversample stay 1 as stt_PackBegin sets *)
(* them: recip_h and recip_v are 1, sub_x and sub_y are 0 and no prefilter *)
(* runs.                                                                   *)

\* a pack context before stt_PackBegin
NoPack ==
    [width |-> 0, height |-> 0, padding |-> 0, stride_in_bytes |-> 0,
     h_oversample |-> 0, v_oversample |-> 0, skip_missing |-> 0,
     pack_info |-> [width |-> 0, height |-> 0, x |-> 0, y |-> 0, bottom_y |-> 0],
     pixels |-> <<>>]

stbrp_init_target(pw, ph) ==
    [width |-> pw, height |-> ph, x |-> 0, y |-> 0, bottom_y |-> 0]

\* one turn of the first loop of stbrp_pack_rects for the rectangle r, after
\* the test for the end of the row: packed is FALSE at the break
PlaceRect(con, r) ==
    IF con.y + r.h > con.height
    THEN [con |-> con, r |-> [r EXCEPT !.was_packed = 0], packed |-> FALSE]
    ELSE [con |-> [con EXCEPT !.x = con.x + r.w,
                              !.bottom_y = IF con.y + r.h > con.bottom_y
                                           THEN con.y + r.h ELSE con.bottom_y],
          r |-> [r EXCEPT !.x = con.x, !.y = con.y, !.was_packed = 1],
          packed |-> TRUE]

\* stbrp_pack_rects from rectangle i on; stopped says the first loop has
\* left at its break, and every rectangle from there on is marked unpacked
RECURSIVE PackLoop(_, _, _, _)
PackLoop(con, rects, i, stopped) ==
    IF i > Len(rects) THEN [con |-> con, rects |-> rects]
    ELSE IF stopped
    THEN PackLoop(con, [rects EXCEPT ![i].was_packed = 0], i + 1, TRUE)
    ELSE Let(PlaceRect(IF con.x + rects[i].w > con.width
                       THEN [con EXCEPT !.x = 0, !.y = con.bottom_y] ELSE con,
                       rects[i]), LAMBDA p :
             PackLoop(p.con, [rects EXCEPT ![i] = p.r], i + 1, ~p.packed))

stbrp_pack_rects(con, rects) == PackLoop(con, rects, 1, FALSE)

\* stt_PackBegin with both allocations succeeding and stride_in_bytes 0
stt_PackBegin(pw, ph, padding) ==
    [width |-> pw, height |-> ph, padding |-> padding, stride_in_bytes |-> pw,
     h_oversample |-> 1, v_oversample |-> 1, skip_missing |-> 0,
     pack_info |-> stbrp_init_target(pw - padding, ph - padding),
     pixels |-> <<>>]

\* The scale of a font size as the fraction height / fheight: exact as a
\* float when fheight is a power of two times height.
stt_ScaleForPixelHeight(height) ==
    Let(ttSHORT(PtrAdd(info.hhea, 4)), LAMBDA ascent :
    Let(ttSHORT(PtrAdd(info.hhea, 6)), LAMBDA descent :
        [v |-> <<height, ascent.v - descent.v>>, oob |-> ascent.oob \/ descent.oob]))

\* A range of a pack call: font_size, first_unicode_codepoint_in_range,
\* array_of_unicode_codepoints (<<>> for NULL) and num_chars.
\* The codepoint of character j of a range
RangeCodepoint(range, j) ==
    IF range.array_of_unicode_codepoints = <<>>
    THEN range.first_unicode_codepoint_in_range + j
    ELSE range.array_of_unicode_codepoints[j + 1]

\* the characters <<i, j>> of the ranges in the order of the two loops
RECURSIVE RangeChars(_, _)
RangeChars(ranges, i) ==
    IF i >= Len(ranges) THEN <<>>
    ELSE [j \in 1..ranges[i + 1].num_chars |-> <<i, j - 1>>] \o RangeChars(ranges, i + 1)

\* a rectangle as stt_PackFontRangesGatherRects leaves it: x, y and was_packed
\* are not set.  glyph and box are not fields of stbrp_rect: they keep the
\* glyph index of the character and the bitmap box of the glyph, which
\* stt_PackFontRangesRenderIntoRects computes again from the same handle, ranges
\* and oversampling, with the same result.
GatheredRect(w, h, glyph, box) ==
    [x |-> 0, y |-> 0, w |-> w, h |-> h, was_packed |-> 0, glyph |-> glyph, box |-> box]

\* the body of the inner loop of stt_PackFontRangesGatherRects for the
\* character at chars[k + 1]; g carries rects, missing_glyph_added, oob, asrt
GatherRect(s, ranges, chars, k, g) ==
    Let(ranges[chars[k + 1][1] + 1], LAMBDA range :
    Let(stt_ScaleForPixelHeight(range.font_size), LAMBDA scale :
    Let(stt_FindGlyphIndex(RangeCodepoint(range, chars[k + 1][2])), LAMBDA glyph :
        IF glyph.v = 0 /\ (s.skip_missing # 0 \/ g.missing_glyph_added = 1)
        THEN [g EXCEPT !.rects = Append(g.rects, GatheredRect(0, 0, glyph.v, <<0, 0, 0, 0>>)),
                       !.oob = g.oob \/ scale.oob \/ glyph.oob,
                       !.asrt = g.asrt \/ glyph.asrt]
        ELSE Let(stt_GetGlyphBitmapBox(glyph.v,
                                       <<scale.v[1] * s.h_oversample, scale.v[2]>>,
                                       <<scale.v[1] * s.v_oversample, scale.v[2]>>),
                 LAMBDA box :
                 [rects |-> Append(g.rects,
                        GatheredRect(box.v[3] - box.v[1] + s.padding + s.h_oversample - 1,
                                     box.v[4] - box.v[2] + s.padding + s.v_oversample - 1,
                                     glyph.v, box.v)),
                  missing_glyph_added |-> IF glyph.v = 0 THEN 1 ELSE g.missing_glyph_added,
                  oob |-> g.oob \/ scale.oob \/ glyph.oob \/ box.oob,
                  asrt |-> g.asrt \/ glyph.asrt \/ box.asrt]))))

RECURSIVE GatherLoop(_, _, _, _, _)
GatherLoop(s, ranges, chars, k, g) ==
    IF k >= Len(chars) \/ g.asrt THEN g
    ELSE Let(GatherRect(s, ranges, chars, k, g), LAMBDA g1 :
             GatherLoop(s, ranges, chars, k + 1, g1))

\* stt_PackFontRangesGatherRects: the rectangles, one for each character
stt_PackFontRangesGatherRects(s, ranges) ==
    Let(RangeChars(ranges, 0), LAMBDA chars :
        GatherLoop(s, ranges, chars, 0,
                   [rects |-> <<>>, missing_glyph_added |-> 0, oob |-> FALSE,
                    asrt |-> FALSE]))

stt_PackFontRangesPackRects(s, rects) == stbrp_pack_rects(s.pack_info, rects)

\* a stt_packedchar: x0, y0, x1 and y1 are unsigned short; xadvance is the
\* fraction <<numerator, denominator>>
PackedChar(x0, y0, x1, y1, xoff, yoff, xadvance, xoff2, yoff2) ==
    [x0 |-> x0 % 65536, y0 |-> y0 % 65536, x1 |-> x1 % 65536, y1 |-> y1 % 65536,
     xoff |-> xoff, yoff |-> yoff, xadvance |-> xadvance, xoff2 |-> xoff2,
     yoff2 |-> yoff2]

\* the records a caller hands in, zeroed
ZeroChar == PackedChar(0, 0, 0, 0, 0, 0, <<0, 1>>, 0, 0)

\* what a load of a record outside its array yields
WildChar == PackedChar(wild, wild, wild, wild, wild, wild, <<wild, 1>>, wild, wild)

\* stt_MakeGlyphBitmapSubpixel(info, spc->pixels + x + y * stride, out_w, out_h,
\* stride, ...): the rasterizer stores out_w bytes in each of out_h rows when
\* the glyph has vertices.  Yields whether it draws, and whether it stores
\* outside the pw * ph bytes of the pixel array or clears a scanline of
\* negative length.
MakeGlyphBitmap(s, x, y, out_w, out_h, glyph) ==
    Let(stt_GetGlyphShape(glyph, TRUE), LAMBDA shape :
    Let(~shape.asrt /\ shape.v > 0 /\ out_w # 0 /\ out_h > 0, LAMBDA draws :
        [draws |-> draws,
         heap  |-> shape.heap
                   \/ (draws /\ (out_w < 0
                                 \/ x + y * s.stride_in_bytes < 0
                                 \/ x + (y + out_h - 1) * s.stride_in_bytes + out_w
                                    > s.width * s.height)),
         oob   |-> shape.oob,
         asrt  |-> shape.asrt]))

\* the first branch of the inner loop of stt_PackFontRangesRenderIntoRects:
\* the rectangle r of character j of the range is rendered
RenderRect(s, range, j, r) ==
    Let(stt_ScaleForPixelHeight(range.font_size), LAMBDA scale :
    Let([r EXCEPT !.x = r.x + s.padding, !.y = r.y + s.padding,
                  !.w = r.w - s.padding, !.h = r.h - s.padding], LAMBDA q :
    Let(stt_GetGlyphHMetrics(r.glyph), LAMBDA metrics :
    Let(MakeGlyphBitmap(s, q.x, q.y, q.w - s.h_oversample + 1, q.h - s.v_oversample + 1,
                        r.glyph), LAMBDA bitmap :
        [r     |-> q,
         bc    |-> PackedChar(q.x, q.y, q.x + q.w, q.y + q.h, r.box[1], r.box[2],
                              <<scale.v[1] * metrics.v[1], scale.v[2]>>,
                              r.box[1] + q.w, r.box[2] + q.h),
         glyph |-> r.glyph,
         area  |-> [x |-> q.x, y |-> q.y, w |-> q.w - s.h_oversample + 1,
                    h |-> q.h - s.v_oversample + 1, glyph |-> r.glyph,
                    draws |-> bitmap.draws],
         oob   |-> scale.oob \/ metrics.oob \/ bitmap.oob \/ bitmap.heap,
         asrt  |-> bitmap.asrt]))))

\* the body of the inner loop of stt_PackFontRangesRenderIntoRects for the
\* character at chars[k + 1]; m carries chardata (one list of records for
\* each range), rects, pixels, missing_glyph, return_value, oob and asrt
RenderChar(s, ranges, chars, k, m) ==
    Let(chars[k + 1][1], LAMBDA i :
    Let(chars[k + 1][2], LAMBDA j :
    Let(m.rects[k + 1], LAMBDA r :
        IF r.was_packed # 0 /\ r.w # 0 /\ r.h # 0
        THEN Let(RenderRect(s, ranges[i + 1], j, r), LAMBDA q :
                 [m EXCEPT !.chardata[i + 1][j + 1] = q.bc,
                           !.rects[k + 1] = q.r,
                           !.pixels = Append(m.pixels, q.area),
                           !.missing_glyph = IF q.glyph = 0 THEN j ELSE m.missing_glyph,
                           !.oob = m.oob \/ q.oob,
                           !.asrt = m.asrt \/ q.asrt])
        ELSE IF s.skip_missing # 0 THEN [m EXCEPT !.return_value = 0]
        ELSE IF r.was_packed # 0 /\ r.w = 0 /\ r.h = 0 /\ m.missing_glyph >= 0
        THEN IF m.missing_glyph < Len(m.chardata[i + 1])
             THEN [m EXCEPT !.chardata[i + 1][j + 1] =
                                m.chardata[i + 1][m.missing_glyph + 1]]
             ELSE [m EXCEPT !.chardata[i + 1][j + 1] = WildChar, !.oob = TRUE]
        ELSE [m EXCEPT !.return_value = 0])))

RECURSIVE RenderLoop(_, _, _, _, _)
RenderLoop(s, ranges, chars, k, m) ==
    IF k >= Len(chars) \/ m.asrt THEN m
    ELSE Let(RenderChar(s, ranges, chars, k, m), LAMBDA m1 :
             RenderLoop(s, ranges, chars, k + 1, m1))

stt_PackFontRangesRenderIntoRects(s, ranges, chardata, rects) ==
    Let(RangeChars(ranges, 0), LAMBDA chars :
        RenderLoop(s, ranges, chars, 0,
                   [chardata |-> chardata, rects |-> rects, pixels |-> s.pixels,
                    missing_glyph |-> -1, return_value |-> 1, oob |-> FALSE,
                    asrt |-> FALSE]))

\* stt_PackFontRanges on the font of the handle, the allocation of the
\* rectangles succeeding: the pack context it leaves, its return value, the
\* records of the ranges and the rectangles as stt_PackFontRangesPackRects
\* leaves them
stt_PackFontRanges(s, ranges) ==
    Let(stt_PackFontRangesGatherRects(s, ranges), LAMBDA g :
    Let(stt_PackFontRangesPackRects(s, g.rects), LAMBDA p :
    Let([s EXCEPT !.pack_info = p.con], LAMBDA s1 :
    Let(stt_PackFontRangesRenderIntoRects(s1, ranges,
            [i \in 1..Len(ranges) |-> [j \in 1..ranges[i].num_chars |-> ZeroChar]],
            p.rects), LAMBDA m :
        [spc      |-> [s1 EXCEPT !.pixels = m.pixels],
         v        |-> m.return_value,
         chardata |-> m.chardata,
         rects    |-> p.rects,
         oob      |-> g.oob \/ m.oob,
         asrt     |-> g.asrt \/ m.asrt]))))

----------------------------------------------------------------------------
(* Kerning: the kern table and GPOS pair adjustment *)

\* ttULONG(info->data + p): no bounds check
ttULONG(p) ==
    [v   |-> Word32(Load(p), Load(PtrAdd(p, 1)), Load(PtrAdd(p, 2)), Load(PtrAdd(p, 3))),
     oob |-> \E k \in 0..3 : ~InBuf(PtrAdd(p, k))]

\* while (l <= r) { ... } of stt__GetGlyphKernInfoAdvance
RECURSIVE KernSearch(_, _, _, _, _)
KernSearch(kdata, needle, l, r, o) ==
    IF l > r THEN [v |-> 0, oob |-> o]
    ELSE Let((l + r) \div 2, LAMBDA m :
         Let(ttULONG(PtrAdd(kdata, 18 + m * 6)), LAMBDA straw :
             IF ULt(needle, straw.v) THEN KernSearch(kdata, needle, l, m - 1, o \/ straw.oob)
             ELSE IF ULt(straw.v, needle)
             THEN KernSearch(kdata, needle, m + 1, r, o \/ straw.oob)
             ELSE Let(ttSHORT(PtrAdd(kdata, 22 + m * 6)), LAMBDA a :
                      [v |-> a.v, oob |-> o \/ straw.oob \/ a.oob])))

\* glyph1 and glyph2 are glyph indices in 0..32767; needle = glyph1 << 16 | glyph2
stt__GetGlyphKernInfoAdvance(glyph1, glyph2) ==
    IF info.kern = 0 THEN [v |-> 0, oob |-> FALSE]
    ELSE
    Let(ttUSHORT(PtrAdd(info.kern, 2)), LAMBDA nTables :
    IF nTables.v < 1 THEN [v |-> 0, oob |-> nTables.oob]
    ELSE
    Let(ttUSHORT(PtrAdd(info.kern, 8)), LAMBDA coverage :
    IF coverage.v # 1 THEN [v |-> 0, oob |-> nTables.oob \/ coverage.oob]
    ELSE
    Let(ttUSHORT(PtrAdd(info.kern, 10)), LAMBDA nPairs :
        KernSearch(info.kern, glyph1 * 65536 + glyph2, 0, nPairs.v - 1,
                   nTables.oob \/ coverage.oob \/ nPairs.oob))))

\* the binary search of coverage format 1
RECURSIVE CoverageSearch1(_, _, _, _, _)
CoverageSearch1(coverageTable, needle, l, r, o) ==
    IF l > r THEN [v |-> -1, oob |-> o]
    ELSE Let((l + r) \div 2, LAMBDA m :
         Let(ttUSHORT(PtrAdd(coverageTable, 4 + 2 * m)), LAMBDA glyphID :
             IF needle < glyphID.v
             THEN CoverageSearch1(coverageTable, needle, l, m - 1, o \/ glyphID.oob)
             ELSE IF needle > glyphID.v
             THEN CoverageSearch1(coverageTable, needle, m + 1, r, o \/ glyphID.oob)
             ELSE [v |-> m, oob |-> o \/ glyphID.oob]))

\* the binary search of coverage format 2 (field = 0: yields the coverage index)
\* and of class definition format 2 (field = 1: yields the class, 0 when the
\* glyph is in no range)
RECURSIVE RangeSearch(_, _, _, _, _, _)
RangeSearch(rangeArray, needle, field, l, r, o) ==
    IF l > r THEN [v |-> IF field = 0 THEN -1 ELSE 0, oob |-> o]
    ELSE Let((l + r) \div 2, LAMBDA m :
         Let(ttUSHORT(PtrAdd(rangeArray, 6 * m)), LAMBDA strawStart :
         Let(ttUSHORT(PtrAdd(rangeArray, 6 * m + 2)), LAMBDA strawEnd :
         Let(o \/ strawStart.oob \/ strawEnd.oob, LAMBDA o1 :
             IF needle < strawStart.v
             THEN RangeSearch(rangeArray, needle, field, l, m - 1, o1)
             ELSE IF needle > strawEnd.v
             THEN RangeSearch(rangeArray, needle, field, m + 1, r, o1)
             ELSE Let(ttUSHORT(PtrAdd(rangeArray, 6 * m + 4)), LAMBDA x :
                      [v   |-> IF field = 0 THEN x.v + needle - strawStart.v ELSE x.v,
                       oob |-> o1 \/ x.oob])))))

stt__GetCoverageIndex(coverageTable, glyph) ==
    Let(ttUSHORT(coverageTable), LAMBDA coverageFormat :
    IF coverageFormat.v = 1
    THEN Let(ttUSHORT(PtrAdd(coverageTable, 2)), LAMBDA glyphCount :
             CoverageSearch1(coverageTable, glyph, 0, glyphCount.v - 1,
                             coverageFormat.oob \/ glyphCount.oob))
    ELSE IF coverageFormat.v = 2
    THEN Let(ttUSHORT(PtrAdd(coverageTable, 2)), LAMBDA rangeCount :
             RangeSearch(PtrAdd(coverageTable, 4), glyph, 0, 0, rangeCount.v - 1,
                         coverageFormat.oob \/ rangeCount.oob))
    ELSE [v |-> -1, oob |-> coverageFormat.oob])

stt__GetGlyphClass(classDefTable, glyph) ==
    Let(ttUSHORT(classDefTable), LAMBDA classDefFormat :
    IF classDefFormat.v = 1
    THEN Let(ttUSHORT(PtrAdd(classDefTable, 2)), LAMBDA startGlyphID :
         Let(ttUSHORT(PtrAdd(classDefTable, 4)), LAMBDA glyphCount :
         Let(classDefFormat.oob \/ startGlyphID.oob \/ glyphCount.oob, LAMBDA o :
             IF glyph >= startGlyphID.v /\ glyph < startGlyphID.v + glyphCount.v
             THEN Let(ttUSHORT(PtrAdd(classDefTable, 6 + 2 * (glyph - startGlyphID.v))),
                      LAMBDA c : [v |-> c.v, oob |-> o \/ c.oob])
             ELSE [v |-> 0, oob |-> o])))
    ELSE IF classDefFormat.v = 2
    THEN Let(ttUSHORT(PtrAdd(classDefTable, 2)), LAMBDA classRangeCount :
             RangeSearch(PtrAdd(classDefTable, 4), glyph, 1, 0, classRangeCount.v - 1,
                         classDefFormat.oob \/ classRangeCount.oob))
    ELSE [v |-> -1, oob |-> classDefFormat.oob])

\* the binary search of a PairSet: done when it returns from the function
RECURSIVE PairSetSearch(_, _, _, _, _)
PairSetSearch(pairValueArray, needle, l, r, o) ==
    IF l > r THEN [done |-> FALSE, v |-> 0, oob |-> o]
    ELSE Let((l + r) \div 2, LAMBDA m :
         Let(ttUSHORT(PtrAdd(pairValueArray, 4 * m)), LAMBDA secondGlyph :
             IF needle < secondGlyph.v
             THEN PairSetSearch(pairValueArray, needle, l, m - 1, o \/ secondGlyph.oob)
             ELSE IF needle > secondGlyph.v
             THEN PairSetSearch(pairValueArray, needle, m + 1, r, o \/ secondGlyph.oob)
             ELSE Let(ttSHORT(PtrAdd(pairValueArray, 4 * m + 2)), LAMBDA xAdvance :
                      [done |-> TRUE, v |-> xAdvance.v,
                       oob  |-> o \/ secondGlyph.oob \/ xAdvance.oob])))

\* case 1 of the switch on posFormat
PairPosFormat1(table, coverageIndex, glyph2) ==
    Let(ttUSHORT(PtrAdd(table, 4)), LAMBDA valueFormat1 :
    Let(ttUSHORT(PtrAdd(table, 6)), LAMBDA valueFormat2 :
    IF ~(valueFormat1.v = 4 /\ valueFormat2.v = 0)
    THEN [done |-> TRUE, v |-> 0, oob |-> valueFormat1.oob \/ valueFormat2.oob]
    ELSE
    Let(ttUSHORT(PtrAdd(table, 8)), LAMBDA pairSetCount :
    Let(ttUSHORT(PtrAdd(table, 10 + 2 * coverageIndex)), LAMBDA pairPosOffset :
    Let(PtrAdd(table, pairPosOffset.v), LAMBDA pairValueTable :
    Let(ttUSHORT(pairValueTable), LAMBDA pairValueCount :
    Let(valueFormat1.oob \/ valueFormat2.oob \/ pairSetCount.oob \/ pairPosOffset.oob
        \/ pairValueCount.oob, LAMBDA o :
        IF coverageIndex >= pairSetCount.v THEN [done |-> TRUE, v |-> 0, oob |-> o]
        ELSE PairSetSearch(PtrAdd(pairValueTable, 2), glyph2, 0,
                           pairValueCount.v - 1, o))))))))

\* case 2 of the switch on posFormat
PairPosFormat2(table, glyph1, glyph2) ==
    Let(ttUSHORT(PtrAdd(table, 4)), LAMBDA valueFormat1 :
    Let(ttUSHORT(PtrAdd(table, 6)), LAMBDA valueFormat2 :
    IF ~(valueFormat1.v = 4 /\ valueFormat2.v = 0)
    THEN [done |-> TRUE, v |-> 0, oob |-> valueFormat1.oob \/ valueFormat2.oob]
    ELSE
    Let(ttUSHORT(PtrAdd(table, 8)), LAMBDA classDef1Offset :
    Let(ttUSHORT(PtrAdd(table, 10)), LAMBDA classDef2Offset :
    Let(stt__GetGlyphClass(PtrAdd(table, classDef1Offset.v), glyph1), LAMBDA glyph1class :
    Let(stt__GetGlyphClass(PtrAdd(table, classDef2Offset.v), glyph2), LAMBDA glyph2class :
    Let(ttUSHORT(PtrAdd(table, 12)), LAMBDA class1Count :
    Let(ttUSHORT(PtrAdd(table, 14)), LAMBDA class2Count :
    Let(valueFormat1.oob \/ valueFormat2.oob \/ classDef1Offset.oob \/ classDef2Offset.oob
        \/ glyph1class.oob \/ glyph2class.oob \/ class1Count.oob \/ class2Count.oob,
        LAMBDA o :
        IF glyph1class.v < 0 \/ glyph1class.v >= class1Count.v
           \/ glyph2class.v < 0 \/ glyph2class.v >= class2Count.v
        THEN [done |-> TRUE, v |-> 0, oob |-> o]
        ELSE Let(ttSHORT(PtrAdd(table, 16 + 2 * (glyph1class.v * class2Count.v)
                                       + 2 * glyph2class.v)), LAMBDA xAdvance :
                 [done |-> TRUE, v |-> xAdvance.v, oob |-> o \/ xAdvance.oob]))))))))))

\* the body of the loop over the subtables of a lookup: done when it returns
\* from the function, otherwise the loop goes on with the next subtable
PairPosSubtable(table, glyph1, glyph2) ==
    Let(ttUSHORT(table), LAMBDA posFormat :
    Let(ttUSHORT(PtrAdd(table, 2)), LAMBDA coverageOffset :
    Let(stt__GetCoverageIndex(PtrAdd(table, coverageOffset.v), glyph1),
        LAMBDA coverageIndex :
    Let(posFormat.oob \/ coverageOffset.oob \/ coverageIndex.oob, LAMBDA o :
        IF coverageIndex.v = -1 THEN [done |-> FALSE, v |-> 0, oob |-> o]
        ELSE IF posFormat.v = 1
        THEN Let(PairPosFormat1(table, coverageIndex.v, glyph2), LAMBDA r :
                 [r EXCEPT !.oob = @ \/ o])
        ELSE IF posFormat.v = 2
        THEN Let(PairPosFormat2(table, glyph1, glyph2), LAMBDA r :
                 [r EXCEPT !.oob = @ \/ o])
        ELSE [done |-> TRUE, v |-> 0, oob |-> o]))))

\* for (sti=0; sti<subTableCount; sti++) { ... }
RECURSIVE PairPosSubtables(_, _, _, _, _, _)
PairPosSubtables(lookupTable, sti, subTableCount, glyph1, glyph2, o) ==
    IF sti >= subTableCount THEN [done |-> FALSE, v |-> 0, oob |-> o]
    ELSE Let(ttUSHORT(PtrAdd(lookupTable, 6 + 2 * sti)), LAMBDA subtableOffset :
         Let(PairPosSubtable(PtrAdd(lookupTable, subtableOffset.v), glyph1, glyph2),
             LAMBDA r :
             IF r.done THEN [r EXCEPT !.oob = @ \/ o \/ subtableOffset.oob]
             ELSE PairPosSubtables(lookupTable, sti + 1, subTableCount, glyph1, glyph2,
                                   o \/ subtableOffset.oob \/ r.oob)))

\* for (i=0; i<lookupCount; ++i) { ... } return 0;
RECURSIVE GPOSLookups(_, _, _, _, _, _)
GPOSLookups(lookupList, i, lookupCount, glyph1, glyph2, o) ==
    IF i >= lookupCount THEN [v |-> 0, oob |-> o]
    ELSE
    Let(ttUSHORT(PtrAdd(lookupList, 2 + 2 * i)), LAMBDA lookupOffset :
    Let(PtrAdd(lookupList, lookupOffset.v), LAMBDA lookupTable :
    Let(ttUSHORT(lookupTable), LAMBDA lookupType :
    Let(ttUSHORT(PtrAdd(lookupTable, 4)), LAMBDA subTableCount :
    Let(o \/ lookupOffset.oob \/ lookupType.oob \/ subTableCount.oob, LAMBDA o1 :
        IF lookupType.v # 2
        THEN GPOSLookups(lookupList, i + 1, lookupCount, glyph1, glyph2, o1)
        ELSE Let(PairPosSubtables(lookupTable, 0, subTableCount.v, glyph1, glyph2, o1),
                 LAMBDA r :
                 IF r.done THEN [v |-> r.v, oob |-> r.oob]
                 ELSE GPOSLookups(lookupList, i + 1, lookupCount, glyph1, glyph2,
                                  r.oob)))))))

stt__GetGlyphGPOSInfoAdvance(glyph1, glyph2) ==
    IF info.gpos = 0 THEN [v |-> 0, oob |-> FALSE]
    ELSE
    Let(ttUSHORT(info.gpos), LAMBDA major :
    IF major.v # 1 THEN [v |-> 0, oob |-> major.oob]
    ELSE
    Let(ttUSHORT(PtrAdd(info.gpos, 2)), LAMBDA minor :
    IF minor.v # 0 THEN [v |-> 0, oob |-> major.oob \/ minor.oob]
    ELSE
    Let(ttUSHORT(PtrAdd(info.gpos, 8)), LAMBDA lookupListOffset :
    Let(PtrAdd(info.gpos, lookupListOffset.v), LAMBDA lookupList :
    Let(ttUSHORT(lookupList), LAMBDA lookupCount :
        GPOSLookups(lookupList, 0, lookupCount.v, glyph1, glyph2,
                    major.oob \/ minor.oob \/ lookupListOffset.oob
                    \/ lookupCount.oob))))))

\* a variant of stt_GetGlyphKernAdvance that consults the kern table also when
\* the font has a GPOS table; the property of C11 tells the two apart
KernAdvanceOfBoth(g1, g2) ==
    Let(stt__GetGlyphGPOSInfoAdvance(g1, g2), LAMBDA a :
    Let(stt__GetGlyphKernInfoAdvance(g1, g2), LAMBDA b :
        [v |-> a.v + b.v, oob |-> a.oob \/ b.oob]))

stt_GetGlyphKernAdvance(g1, g2) ==
    IF info.gpos # 0 THEN stt__GetGlyphGPOSInfoAdvance(g1, g2)
    ELSE IF info.kern # 0 THEN stt__GetGlyphKernInfoAdvance(g1, g2)
    ELSE [v |-> 0, oob |-> FALSE]

----------------------------------------------------------------------------
(* SVG documents of glyphs *)

TagSVG == <<83, 86, 71, 32>>

\* stt__get_svg resolves info->svg the first time it is needed: inf is the
\* handle, and the result holds the handle it leaves and the value returned
stt__get_svg(inf) ==
    IF inf.svg < 0
    THEN Let(stt__find_table(inf.fontstart, TagSVG), LAMBDA t :
         IF t.v # 0
         THEN Let(stt__safe_read32(Add32(t.v, 2)), LAMBDA offset :
                  [info |-> [inf EXCEPT !.svg = Add32(t.v, offset.v)],
                   v |-> Add32(t.v, offset.v), oob |-> t.oob \/ offset.oob])
         ELSE [info |-> [inf EXCEPT !.svg = 0], v |-> 0, oob |-> t.oob])
    ELSE [info |-> inf, v |-> inf.svg, oob |-> FALSE]

\* gl >= ttUSHORT(svg_doc) && gl <= ttUSHORT(svg_doc + 2): v tells whether the
\* record matches, oob whether a load it makes is outside the buffer
SvgDocMatches(svg_doc, gl) ==
    Let(ttUSHORT(svg_doc), LAMBDA first :
        IF gl >= first.v
        THEN Let(ttUSHORT(PtrAdd(svg_doc, 2)), LAMBDA last :
                 [v |-> gl <= last.v, oob |-> first.oob \/ last.oob])
        ELSE [v |-> FALSE, oob |-> first.oob])

\* stt_FindSVGDoc: found tells whether the result is not NULL, v is the record
\* returned.  The records from the first one that starts past the end of the
\* buffer onwards all load the same bytes, so the loop is followed up to that
\* record, which decides for the ones after it.
stt_FindSVGDoc(inf, gl) ==
    Let(stt__get_svg(inf), LAMBDA g :
    Let(ttUSHORT(g.v), LAMBDA numEntries :
    Let(PtrAdd(g.v, 2), LAMBDA svg_docs :
    Let(IF svg_docs >= Len(data) THEN 0 ELSE (Len(data) - svg_docs + 11) \div 12, LAMBDA far :
    Let(IF numEntries.v - 1 < far THEN numEntries.v - 1 ELSE far, LAMBDA last :
    Let({ i \in 0..last : SvgDocMatches(PtrAdd(svg_docs, 12 * i), gl).v }, LAMBDA matching :
    Let(IF matching = {} THEN last
        ELSE CHOOSE i \in matching : \A j \in matching : i <= j, LAMBDA reached :
        [info  |-> g.info,
         found |-> matching # {},
         v     |-> IF matching = {} THEN 0 ELSE PtrAdd(svg_docs, 12 * reached),
         oob   |-> \/ g.oob \/ numEntries.oob
                   \/ \E i \in 0..reached :
                         SvgDocMatches(PtrAdd(svg_docs, 12 * i), gl).oob])))))))

\* stt_GetGlyphSVG: v is the value returned and svg what is stored through the
\* parameter svg, <<>> when nothing is: the document starts at
\* info->data + svg[1] + svg[2], svg[2] being a stt_uint32
stt_GetGlyphSVG(inf, gl) ==
    IF inf.svg = 0 THEN [info |-> inf, v |-> 0, svg |-> <<>>, oob |-> FALSE]
    ELSE Let(stt_FindSVGDoc(inf, gl), LAMBDA svg_doc :
         IF svg_doc.found
         THEN Let(ttULONG(PtrAdd(svg_doc.v, 4)), LAMBDA offset :
              Let(ttULONG(PtrAdd(svg_doc.v, 8)), LAMBDA length :
                  [info |-> svg_doc.info, v |-> length.v,
                   svg |-> <<svg_doc.info.svg, offset.v>>,
                   oob |-> svg_doc.oob \/ offset.oob \/ length.oob]))
         ELSE [info |-> svg_doc.info, v |-> 0, svg |-> <<>>, oob |-> svg_doc.oob])

----------------------------------------------------------------------------
(* The font buffers the handle is initialised from.  Each is assembled     *)
(* byte by byte from a description d: an SFNT header, the table directory  *)
(* and the table bodies, in directory order.                               *)

B16(v) == <<(v \div 256) % 256, v % 256>>
B32(v) == <<(v \div 16777216) % 256, (v \div 65536) % 256, (v \div 256) % 256, v % 256>>
Zeros(n) == [i \in 1..n |-> 0]

RECURSIVE Flatten(_)
Flatten(ss) == IF ss = <<>> THEN <<>> ELSE Head(ss) \o Flatten(Tail(ss))

\* head: unitsPerEm at 18, the font bounding box at 36..43, indexToLocFormat at 50
HeadBody(d) ==
    Zeros(18) \o B16(1000) \o Zeros(16) \o B16(-10) \o B16(-20) \o B16(900) \o B16(800)
    \o Zeros(6) \o B16(d.locFormat) \o Zeros(2)

\* hhea: ascent, descent, lineGap at 4, 6, 8; numOfLongHorMetrics at 34
HheaBody(d) == Zeros(4) \o B16(800) \o B16(-200) \o B16(90) \o Zeros(24) \o B16(d.numLong)

MaxpBody(d) == <<0, 1, 0, 0>> \o B16(d.numGlyphs)

\* hmtx: numLong {advance, lsb} entries, then one lsb for each other glyph
HmtxBody(d) ==
    Flatten([i \in 1..d.numLong |-> B16(d.advance + i) \o B16(d.lsb + i)])
    \o Flatten([i \in 1..(IF d.numGlyphs > d.numLong THEN d.numGlyphs - d.numLong ELSE 0)
                  |-> B16(d.lsb + 10 + i)])

\* loca: glyph 0 is empty, every other glyph has a 10-byte header in glyf
\* The points of a simple glyph, by name: the end points of the contours, the
\* flags and the coordinate bytes.  Flag bits: 1 on the curve, 2 and 4 a
\* one-byte x and y, 8 repeat, 16 and 32 the sign of a one-byte coordinate or
\* "same as the last" of a two-byte one.
OutlinePoints(name) ==
    CASE name = "triangle" ->
             \* (10, 10), (60, 10), (10, 50), all on the curve
             [ends |-> <<2>>, flags |-> <<55, 55, 39>>, xy |-> <<10, 50, 50, 10, 0, 40>>]
      [] name = "curves" ->
             \* on, off, off, on, off: two control points in a row
             [ends |-> <<4>>, flags |-> <<55, 54, 54, 55, 38>>,
              xy |-> <<10, 20, 20, 20, 60, 10, 20, 0, 0, 30>>]
      [] name = "offstart" ->
             \* both contours start off the curve; the second one's next point is on it
             [ends |-> <<2, 5>>, flags |-> <<54, 54, 55, 54, 55, 55>>,
              xy |-> <<10, 20, 20, 30, 10, 10, 10, 10, 0, 10, 10, 10>>]
      [] name = "repeat" ->
             \* a repeated flag, and two-byte coordinates
             [ends |-> <<1, 3>>, flags |-> <<9, 3>>,
              xy |-> <<0, 10, 0, 50, 255, 206, 0, 5, 0, 10, 0, 0, 0, 40, 255, 236>>]

\* a simple glyph of the glyf table: a header {numberOfContours, xMin, yMin,
\* xMax, yMax}, then {endPtsOfContours, instructionLength, flags, x, y},
\* padded to an even length
SimpleGlyphOf(q, box) ==
    LET g == B16(Len(q.ends)) \o B16(box[1]) \o B16(box[2]) \o B16(box[3]) \o B16(box[4])
             \o Flatten([k \in 1..Len(q.ends) |-> B16(q.ends[k])])
             \o B16(0) \o q.flags \o q.xy
    IN  IF Len(g) % 2 = 1 THEN g \o <<0>> ELSE g

SimpleGlyph(name, box) == SimpleGlyphOf(OutlinePoints(name), box)

\* a composite glyph of the glyf table: a header with numberOfContours -1,
\* then the component records {flags, glyphIndex, arguments, scale}.  The
\* arguments are words when bit 0 of the flags is set and bytes otherwise.
ComponentBytes(c) ==
    B16(c.flags) \o B16(c.gidx)
    \o (IF c.flags % 2 = 1 THEN Flatten([k \in 1..Len(c.args) |-> B16(c.args[k])])
        ELSE [k \in 1..Len(c.args) |-> c.args[k] % 256])
    \o Flatten([k \in 1..Len(c.scale) |-> B16(c.scale[k])])

CompositeGlyph(cs) ==
    LET g == B16(-1) \o B16(0) \o B16(0) \o B16(80) \o B16(80)
             \o Flatten([k \in 1..Len(cs) |-> ComponentBytes(cs[k])])
    IN  IF Len(g) % 2 = 1 THEN g \o <<0>> ELSE g

\* the glyphs of a font with outlines: glyph 0 is empty unless the outline is
\* "notdef", the last glyph is a header without contours, glyph 1 has the
\* outline named (for "inverted" a header without contours whose xMax is less
\* than its xMin) and the others a triangle
OutlineGlyph(d, i) ==
    IF i < Len(d.components) /\ d.components[i + 1] # <<>>
    THEN CompositeGlyph(d.components[i + 1])
    ELSE IF i = 0 THEN IF d.outline = "notdef" THEN SimpleGlyph("triangle", <<0, 0, 40, 60>>)
                  ELSE <<>>
    ELSE IF i = d.numGlyphs - 1 THEN B16(0) \o B16(i) \o B16(-i) \o B16(100 + i) \o B16(200 + i)
    ELSE IF i = 1 /\ d.outline = "inverted"
    THEN B16(0) \o B16(60) \o B16(0) \o B16(10) \o B16(80)
    ELSE IF i = 1 /\ d.outline = "points" THEN SimpleGlyphOf(d.points, <<0, 0, 80, 80>>)
    ELSE IF i = 1 /\ d.outline \notin {"notdef", "composite"}
    THEN SimpleGlyph(d.outline, <<0, 0, 80, 80>>)
    ELSE SimpleGlyph("triangle", <<0, 0, 80, 80>>)

RECURSIVE OutlineOffset(_, _)
OutlineOffset(d, i) ==
    IF i <= 0 THEN 0 ELSE OutlineOffset(d, i - 1) + Len(OutlineGlyph(d, i - 1))

LocaEntry(d, i) ==
    IF d.outline # "none" THEN OutlineOffset(d, i)
    ELSE IF i <= 1 THEN 0 ELSE 10 * (i - 1)
LocaBody(d) ==
    Flatten([i \in 1..(d.numGlyphs + 1) |->
                IF d.locFormat = 0 THEN B16(LocaEntry(d, i - 1) \div 2)
                ELSE B32(LocaEntry(d, i - 1))])

\* glyf: for glyph i >= 1 a header {numberOfContours, xMin, yMin, xMax, yMax};
\* the last glyph has no contours
GlyfBody(d) ==
    IF d.outline # "none" THEN Flatten([i \in 1..d.numGlyphs |-> OutlineGlyph(d, i - 1)])
    ELSE IF d.numGlyphs <= 1 THEN Zeros(2)
    ELSE Flatten([i \in 1..(d.numGlyphs - 1) |->
                    B16(IF i = d.numGlyphs - 1 THEN 0 ELSE 1)
                    \o B16(i) \o B16(-i) \o B16(100 + i) \o B16(200 + i)])

\* cmap subtables, by name
SubtableBody(name) ==
    CASE name = "f0"   -> B16(0) \o B16(6 + 4) \o B16(0) \o <<0, 2, 1, 200>>
      [] name = "f2"   -> B16(2) \o B16(6) \o B16(0)
      [] name = "f6"   -> B16(6) \o B16(14) \o B16(0) \o B16(65) \o B16(2) \o B16(1) \o B16(9)
      \* format 4, segments [65,66] delta -64 and the sentinel [0xFFFF,0xFFFF] delta 0
      [] name = "f4"   -> B16(4) \o B16(32) \o B16(0) \o B16(4) \o B16(4) \o B16(1) \o B16(0)
                          \o B16(66) \o B16(65535) \o B16(0)
                          \o B16(65) \o B16(65535)
                          \o B16(-64) \o B16(0)
                          \o B16(0) \o B16(0)
      \* the same with the sentinel's idDelta 1
      [] name = "f4d1" -> B16(4) \o B16(32) \o B16(0) \o B16(4) \o B16(4) \o B16(1) \o B16(0)
                          \o B16(66) \o B16(65535) \o B16(0)
                          \o B16(65) \o B16(65535)
                          \o B16(-64) \o B16(1)
                          \o B16(0) \o B16(0)
      \* the first segment maps through the glyph array (idRangeOffset 4)
      [] name = "f4ro" -> B16(4) \o B16(36) \o B16(0) \o B16(4) \o B16(4) \o B16(1) \o B16(0)
                          \o B16(66) \o B16(65535) \o B16(0)
                          \o B16(65) \o B16(65535)
                          \o B16(0) \o B16(1)
                          \o B16(4) \o B16(0)
                          \o B16(2) \o B16(700)
      \* only the sentinel segment
      [] name = "f4s"  -> B16(4) \o B16(24) \o B16(0) \o B16(2) \o B16(2) \o B16(0) \o B16(0)
                          \o B16(65535) \o B16(0) \o B16(65535) \o B16(0) \o B16(0)
      [] name = "f12"  -> B16(12) \o B16(0) \o B32(40) \o B32(0) \o B32(2)
                          \o B32(65) \o B32(66) \o B32(1)
                          \o B32(65536) \o B32(1114111) \o B32(2)
      [] name = "f13"  -> B16(13) \o B16(0) \o B32(40) \o B32(0) \o B32(2)
                          \o B32(65) \o B32(66) \o B32(1)
                          \o B32(65536) \o B32(1114111) \o B32(70000)
      [] name = "f14"  -> B16(14) \o B32(10) \o B32(0)
      [] OTHER         -> <<>>

\* the largest power of 2 that is at most n, and its logarithm
RECURSIVE Log2(_)
Log2(n) == IF n <= 1 THEN 0 ELSE 1 + Log2(n \div 2)
RECURSIVE Pow2(_)
Pow2(k) == IF k <= 0 THEN 1 ELSE 2 * Pow2(k - 1)

\* the glyph array entries of the segments before segment i
RECURSIVE GlyphsBefore(_, _)
GlyphsBefore(segs, i) ==
    IF i <= 1 THEN 0 ELSE Len(segs[i - 1].glyphs) + GlyphsBefore(segs, i - 1)

\* A format-4 subtable with the segments given, each {start, end, delta, glyphs}:
\* the header {format, length, language, segCountX2, searchRange, entrySelector,
\* rangeShift}, endCount[], a pad, startCount[], idDelta[], idRangeOffset[] and
\* glyphIdArray[].  A segment with glyphs has the idRangeOffset that leads from
\* its own entry to its part of the glyph array, and the others 0.
Format4Body(segs) ==
    LET n     == Len(segs)
        total == 16 + 8 * n + 2 * GlyphsBefore(segs, n + 1)
    IN  B16(4) \o B16(total) \o B16(0) \o B16(2 * n)
        \o B16(2 * Pow2(Log2(n))) \o B16(Log2(n)) \o B16(2 * n - 2 * Pow2(Log2(n)))
        \o Flatten([i \in 1..n |-> B16(segs[i].end)])
        \o B16(0)
        \o Flatten([i \in 1..n |-> B16(segs[i].start)])
        \o Flatten([i \in 1..n |-> B16(segs[i].delta)])
        \o Flatten([i \in 1..n |->
                       B16(IF segs[i].glyphs = <<>> THEN 0
                           ELSE 2 * (n - i + 1) + 2 * GlyphsBefore(segs, i))])
        \o Flatten([i \in 1..n |->
                       Flatten([k \in 1..Len(segs[i].glyphs) |-> B16(segs[i].glyphs[k])])])

\* cmap: version, numTables, one 8-byte encoding record {platformID, encodingID,
\* offset} for each entry of d.recs, then one copy of the subtable for each record
CmapBody(d) ==
    LET n    == Len(d.recs)
        sub  == IF d.sub = "segments" THEN Format4Body(d.segs) ELSE SubtableBody(d.sub)
        recs == Flatten([i \in 1..n |->
                    B16(d.recs[i][1]) \o B16(d.recs[i][2])
                    \o B32(4 + 8 * n + (i - 1) * Len(sub))])
    IN  B16(0) \o B16(n) \o recs \o Flatten([i \in 1..n |-> sub])

\* The CFF table, by variant.  Its Top DICT holds the offsets (from the start of
\* the table) of the CharStrings INDEX, the FDArray, the Private DICT and FDSelect;
\* every operand is one byte (value + 139).
CffTopDict(name, chars, fdarr, priv, fdsel) ==
    CASE name \in {"cstype1", "badstr1"} -> <<139 + chars, 17, 139 + 1, 12, 6>>
      [] name = "nochars" -> <<139 + 2, 12, 6>>
      [] name = "fdarray" -> <<139 + chars, 17, 139 + fdarr, 12, 36>>
      [] name = "cid"     -> <<139 + chars, 17, 139 + fdarr, 12, 36, 139 + fdsel, 12, 37>>
      [] name = "private" -> <<139 + chars, 17, 139 + 2, 139 + priv, 18>>
      [] OTHER            -> <<139 + chars, 17>>

CffBody(name) ==
    LET topLen   == Len(CffTopDict(name, 0, 0, 0, 0))
        header   == <<1, 0, 4, 1>>
        \* the name INDEX: one name, "A"
        nameidx  == CASE name = "offsize0" -> B16(1) \o <<0, 1, 2, 65>>
                      [] name = "offsize5" -> B16(1) \o <<5, 1, 2, 65>>
                      [] OTHER             -> B16(1) \o <<1, 1, 2, 65>>
        stridx   == IF name = "badstr1" THEN B16(1) \o <<0, 1, 2, 65>> ELSE B16(0)
        gsubrs   == B16(0)
        fdarray  == IF name = "cid" THEN B16(1) \o <<1, 1, 2, 0>> ELSE <<>>
        \* one charstring: endchar
        chars    == B16(1) \o <<1, 1, 2, 14>>
        \* a Private DICT {Subrs 2} followed by its Subrs INDEX: one subr, return
        private  == IF name = "private" THEN <<139 + 2, 19>> \o B16(1) \o <<1, 1, 2, 11>>
                    ELSE <<>>
        fdselect == IF name = "cid" THEN <<0, 0>> ELSE <<>>
        fdarrOff == Len(header) + Len(nameidx) + (IF name = "notop" THEN 2 ELSE 5 + topLen)
                    + Len(stridx) + Len(gsubrs)
        charsOff == fdarrOff + Len(fdarray)
        privOff  == charsOff + Len(chars)
        fdselOff == privOff + Len(private)
        top      == CffTopDict(name, charsOff, fdarrOff, privOff, fdselOff)
        topidx   == IF name = "notop" THEN B16(0)
                    ELSE B16(1) \o <<1, 1, 1 + Len(top)>> \o top
    IN  header \o nameidx \o topidx \o stridx \o gsubrs \o fdarray \o chars \o private
        \o fdselect

\* a CFF INDEX with one-byte offsets holding the items
RECURSIVE IndexOffsets(_, _, _)
IndexOffsets(items, i, at) ==
    IF i > Len(items) THEN <<at>>
    ELSE <<at>> \o IndexOffsets(items, i + 1, at + Len(items[i]))
CffIndex(items) ==
    IF items = <<>> THEN B16(0)
    ELSE B16(Len(items)) \o <<1>> \o IndexOffsets(items, 1, 1) \o Flatten(items)

\* a DICT operand of three bytes
Op16(v) == <<28>> \o B16(v)

\* charstring operands and operators
CsInt(v) == IF v \in (-107)..107 THEN <<139 + v>> ELSE <<28>> \o B16(v)
rmoveto == <<21>>
rlineto == <<5>>
callsubr == <<10>>
callgsubr == <<29>>
endchar == <<14>>
return == <<11>>

\* the global subrs: 0 draws a line and ends the glyph
CsGsubrs == << CsInt(0) \o CsInt(7) \o rlineto \o endchar >>
\* the local subrs: 0 calls itself, 1 draws a line and returns, 2 draws a line
\* and runs off its end
CsSubrs ==
    << CsInt(-107) \o callsubr,
       CsInt(5) \o CsInt(0) \o rlineto \o return,
       CsInt(1) \o CsInt(1) \o rlineto >>

\* the glyphs of a charstring font: the program checked, an empty glyph and a
\* triangle
Triangle ==
    CsInt(10) \o CsInt(20) \o rmoveto
    \o CsInt(30) \o CsInt(0) \o CsInt(0) \o CsInt(40) \o rlineto \o endchar
CsGlyphs(program) == << program, endchar, Triangle >>

\* A CFF table whose glyph 0 is the program.  With cid other than "no" the
\* font is CID-keyed: an FDArray of one Font DICT that owns the Private DICT,
\* and an FDSelect of format 3 with one range, [0, 2) when glyph 0 is
\* "covered" and [1, 3) when it is not.
CsCffOf(glyphs, subrs, cid) ==
    LET header   == <<1, 0, 4, 1>>
        nameidx  == CffIndex(<< <<65>> >>)
        topLen   == IF cid # "no" THEN 14 ELSE 11
        gsubrs   == CffIndex(CsGsubrs)
        chars    == CffIndex(glyphs)
        private  == Op16(4) \o <<19>> \o CffIndex(subrs)
        charsOff == Len(header) + Len(nameidx) + 5 + topLen + 2 + Len(gsubrs)
        privOff  == charsOff + Len(chars)
        fdarrOff == privOff + Len(private)
        fontdict == Op16(4) \o Op16(privOff) \o <<18>>
        fdarray  == CffIndex(<< fontdict >>)
        fdselOff == fdarrOff + Len(fdarray)
        first    == IF cid = "covered" THEN 0 ELSE 1
        fdselect == <<3>> \o B16(1) \o B16(first) \o <<0>> \o B16(first + 2)
        top      == IF cid # "no"
                    THEN Op16(charsOff) \o <<17>> \o Op16(fdarrOff) \o <<12, 36>>
                         \o Op16(fdselOff) \o <<12, 37>>
                    ELSE Op16(charsOff) \o <<17>> \o fontdict
    IN  header \o nameidx \o CffIndex(<< top >>) \o B16(0) \o gsubrs \o chars \o private
        \o (IF cid # "no" THEN fdarray \o fdselect ELSE <<>>)

CsCffBody(program, cid) == CsCffOf(CsGlyphs(program), CsSubrs, cid)

\* kern: version, nTables; the first subtable's header {version, length,
\* coverage, nPairs, searchRange, entrySelector, rangeShift}; its pairs
\* {left, right, value}, sorted
KernBody(name) ==
    B16(0) \o B16(1)
    \o B16(0) \o B16(26) \o B16(IF name = "vertical" THEN 0 ELSE 1)
    \o B16(2) \o B16(12) \o B16(1) \o B16(0)
    \o B16(1) \o B16(2) \o B16(-80)
    \o B16(2) \o B16(1) \o B16(40)

\* a PairPos subtable, by name
PairPosBody(name) ==
    CASE name = "pp1" ->
             \* format 1: coverage {glyph 1}, one PairSet {(glyph 2, -30)}
             B16(1) \o B16(12) \o B16(4) \o B16(0) \o B16(1) \o B16(18)
             \o B16(1) \o B16(1) \o B16(1)
             \o B16(1) \o B16(2) \o B16(-30)
      [] OTHER ->
             \* format 2: coverage range [1, 2]; glyph 1 has first class 1, glyph 2
             \* has second class 1; the class pair (1, 1) has the value -25
             B16(2) \o B16(24) \o B16(4) \o B16(0) \o B16(34) \o B16(42)
             \o B16(2) \o B16(2)
             \o B16(0) \o B16(0) \o B16(0) \o B16(-25)
             \o B16(2) \o B16(1) \o B16(1) \o B16(2) \o B16(0)
             \o B16(1) \o B16(1) \o B16(1) \o B16(1)
             \o B16(2) \o B16(1) \o B16(2) \o B16(2) \o B16(1)

\* GPOS: the header {major, minor, scriptList, featureList, lookupList}, a
\* LookupList with one Lookup, the Lookup {type, flag, subTableCount, offset}
\* and its subtable
GposBody(name) ==
    B16(IF name = "v2" THEN 2 ELSE 1) \o B16(0) \o B16(0) \o B16(0) \o B16(10)
    \o B16(1) \o B16(4)
    \o B16(IF name = "type1" THEN 1 ELSE 2) \o B16(0) \o B16(1) \o B16(8)
    \o PairPosBody(IF name = "pp1" THEN "pp1" ELSE "pp2")

\* the optional tables of the font
\* SVG: a header {version, svgDocumentListOffset, reserved}, the document list
\* {numEntries, then {startGlyphID, endGlyphID, svgDocOffset, svgDocLength} each}
\* and the documents
SvgBody(name) ==
    B16(0) \o B32(10) \o B32(0)
    \o (CASE name = "one" -> B16(1) \o B16(1) \o B16(2) \o B32(14) \o B32(5)
          [] name = "two" -> B16(2) \o B16(0) \o B16(0) \o B32(26) \o B32(3)
                             \o B16(2) \o B16(2) \o B32(29) \o B32(3)
          [] name = "empty" -> B16(0))
    \o <<60, 115, 118, 103, 62, 33>>

OptionalTables(d) ==
    (IF d.kern = "none" THEN <<>> ELSE << <<TagKern, KernBody(d.kern)>> >>)
    \o (IF d.gpos = "none" THEN <<>> ELSE << <<TagGPOS, GposBody(d.gpos)>> >>)
    \o (IF d.svg = "none" THEN <<>> ELSE << <<TagSVG, SvgBody(d.svg)>> >>)

\* the tables of the font, in directory order: <<tag, body>>
Tables(d) ==
    LET all == IF d.kind = "tt"
               THEN << <<TagHead, HeadBody(d)>>, <<TagHhea, HheaBody(d)>>,
                       <<TagMaxp, MaxpBody(d)>>, <<TagCmap, CmapBody(d)>>,
                       <<TagHmtx, HmtxBody(d)>>, <<TagLoca, LocaBody(d)>>,
                       <<TagGlyf, GlyfBody(d)>> >>
               ELSE << <<TagHead, HeadBody(d)>>, <<TagHhea, HheaBody(d)>>,
                       <<TagMaxp, MaxpBody(d)>>, <<TagCmap, CmapBody(d)>>,
                       <<TagHmtx, HmtxBody(d)>>,
                       <<TagCFF, IF d.cff = "charstring" THEN CsCffBody(d.cs, d.cid)
                                 ELSE IF d.cff = "glyphs" THEN CsCffOf(d.cs, d.subrs, d.cid)
                                 ELSE CffBody(d.cff)>> >>
    IN  SelectSeq(all, LAMBDA t : t[1] # d.drop) \o OptionalTables(d)

\* the offset of table i: after the header, the directory and the bodies before it
RECURSIVE BodiesBefore(_, _)
BodiesBefore(ts, i) == IF i <= 1 THEN 0 ELSE Len(ts[i - 1][2]) + BodiesBefore(ts, i - 1)
TableOffset(ts, i) == 12 + 16 * Len(ts) + BodiesBefore(ts, i)

\* d.far names a table whose directory entry holds the offset d.farOffset and the
\* length d.farLength instead of its own
FontBytes(d) ==
    LET ts  == Tables(d)
        dir == Flatten([i \in 1..Len(ts) |->
                   ts[i][1] \o Zeros(4)
                   \o (IF ts[i][1] = d.far THEN B32(d.farOffset) \o B32(d.farLength)
                       ELSE B32(TableOffset(ts, i)) \o B32(Len(ts[i][2])))])
        all == (IF d.kind = "tt" THEN <<0, 1, 0, 0>> ELSE <<79, 84, 84, 79>>)
               \o B16(Len(ts)) \o Zeros(6) \o dir \o Flatten([i \in 1..Len(ts) |-> ts[i][2]])
    IN  SubSeq(all, 1, Len(all) - d.cut)


----------------------------------------------------------------------------
(* The family of fonts checked *)

MaxRecords == 3    \* encoding records in a cmap
MaxGlyphs  == 3    \* numGlyphs of a font of the family

BaseFont ==
    [kind |-> "tt", drop |-> <<>>, far |-> <<>>, farOffset |-> 0, farLength |-> 0,
     recs |-> << <<3, 1>> >>, sub |-> "f4", numGlyphs |-> MaxGlyphs, numLong |-> 2,
     locFormat |-> 0, cff |-> "good", cut |-> 0, kern |-> "none", gpos |-> "none",
     advance |-> 500, lsb |-> 10, cs |-> <<>>, cid |-> "no",
     outline |-> "none", svg |-> "none", segs |-> <<>>, subrs |-> <<>>,
     points |-> <<>>, components |-> <<>>]

BaseCFF == [BaseFont EXCEPT !.kind = "cff"]

\* encoding records: Microsoft/BMP, Microsoft/full, Unicode, and one the engine
\* does not understand (Macintosh/Roman)
RecordKinds == { <<3, 1>>, <<3, 10>>, <<0, 3>>, <<1, 0>> }

RecordLists ==
    { r \in UNION { [1..n -> RecordKinds] : n \in 0..MaxRecords } :
        \A i, j \in DOMAIN r : i # j => r[i] # r[j] }

SubtableNames == {"f0", "f2", "f4", "f4d1", "f4ro", "f4s", "f6", "f12", "f13", "f14"}

CffNames == {"good", "cstype1", "badstr1", "nochars", "fdarray", "cid", "private",
             "offsize0", "offsize5", "notop"}

Fonts ==
    \* which encoding record is selected
    { [BaseFont EXCEPT !.recs = r, !.sub = "f0"] : r \in RecordLists }
    \* the cmap subtable formats, with any number of glyphs
    \cup { [BaseFont EXCEPT !.sub = f, !.numGlyphs = n] :
             f \in SubtableNames, n \in {0, 1, MaxGlyphs} }
    \cup { [BaseCFF EXCEPT !.sub = f] : f \in SubtableNames }
    \* loca formats 0, 1 and an unknown one
    \cup { [BaseFont EXCEPT !.locFormat = l, !.numLong = h] : l \in 0..2, h \in 0..MaxGlyphs }
    \* a required table missing
    \cup { [k EXCEPT !.drop = t] :
             k \in {BaseFont, BaseCFF},
             t \in {TagCmap, TagHead, TagHhea, TagHmtx, TagLoca, TagGlyf, TagMaxp, TagCFF} }
    \* CFF tables, well formed and not
    \cup { [BaseCFF EXCEPT !.cff = c] : c \in CffNames }
    \* a directory entry that points far outside the buffer
    \cup { [k EXCEPT !.far = t, !.farOffset = o, !.farLength = 48] :
             k \in {BaseFont, BaseCFF},
             t \in {TagCmap, TagHead, TagHhea, TagHmtx, TagMaxp, TagCFF},
             o \in {-16, -1} }
    \* a truncated file
    \cup { [k EXCEPT !.cut = c] : k \in {BaseFont, BaseCFF}, c \in {1, 8, 40} }

----------------------------------------------------------------------------
(* The handle and its operations *)

\* the handle before stt_InitFont has run, holding the buffer length it is
\* going to be initialised with
FreshInfo(size) ==
    [data_size |-> size, fontstart |-> 0, numGlyphs |-> 0,
     loca |-> 0, head |-> 0, glyf |-> 0, hhea |-> 0, hmtx |-> 0, kern |-> 0,
     gpos |-> 0, svg |-> 0, index_map |-> 0, indexToLocFormat |-> 0,
     cff |-> NullBuf, charstrings |-> NullBuf, gsubrs |-> NullBuf, subrs |-> NullBuf,
     fontdicts |-> NullBuf, fdselect |-> NullBuf]

NoOp == [name |-> "none"]

Init ==
    /\ \E d \in Fonts : data = FontBytes(d)
    /\ info = FreshInfo(Len(data))
    /\ pc = "fresh"
    /\ op = NoOp
    /\ ret = <<>>
    /\ oob = FALSE
    /\ asserted = FALSE
    /\ ndebug \in BOOLEAN
    /\ wild \in {0, 255}
    /\ spc = NoPack
    /\ buf = NullBuf
    /\ run = NoRun
    /\ calls = <<>>
    /\ ras = NoRas

\* stt_InitFont(info, data, data_size, 0); q names the outcome of the call
InitFont ==
    /\ pc = "fresh"
    /\ LET r == stt_InitFont_internal(0)
       IN  \E q \in {r} :
             /\ info' = q.info
             /\ pc' = IF q.asrt THEN "aborted" ELSE IF q.ret = 1 THEN "ready" ELSE "failed"
             /\ ret' = IF q.asrt THEN <<>> ELSE <<q.ret>>
             /\ oob' = q.oob
             /\ asserted' = q.asrt
    /\ op' = [name |-> "InitFont"]
    /\ UNCHANGED <<data, ndebug, wild, spc, buf, run, calls, ras>>

\* the codepoints and glyph indices the queries are called with
MaxCodepoint == 3
Codepoints  == (0..MaxCodepoint) \cup {65, 66, 255, 65535, 65536, 1114111}
GlyphProbes == ((-1)..(MaxGlyphs + 1)) \cup {1000}

\* a query on an initialised handle that yields v: it leaves the handle as it
\* is, and a failed assertion ends the program
Query(o, v, outside, failed) ==
    /\ op' = o
    /\ ret' = IF failed THEN <<>> ELSE v
    /\ oob' = outside
    /\ asserted' = failed
    /\ pc' = IF failed THEN "aborted" ELSE pc
    /\ UNCHANGED <<data, info, ndebug, wild, spc, buf, run, calls, ras>>

FindGlyphIndex ==
    /\ pc = "ready"
    /\ \E c \in Codepoints :
         LET r == stt_FindGlyphIndex(c)
         IN  \E q \in {r} :
               Query([name |-> "FindGlyphIndex", arg |-> c], <<q.v>>, q.oob, q.asrt)

GetGlyphBox ==
    /\ pc = "ready"
    /\ \E g \in GlyphProbes :
         LET r == stt_GetGlyphBox(g)
         IN  \E q \in {r} :
               Query([name |-> "GetGlyphBox", arg |-> g], q.v, q.oob, q.asrt)

IsGlyphEmpty ==
    /\ pc = "ready"
    /\ \E g \in GlyphProbes :
         LET r == stt_IsGlyphEmpty(g)
         IN  \E q \in {r} :
               Query([name |-> "IsGlyphEmpty", arg |-> g], <<q.v>>, q.oob, q.asrt)

GetGlyphHMetrics ==
    /\ pc = "ready"
    /\ \E g \in GlyphProbes :
         LET r == stt_GetGlyphHMetrics(g)
         IN  \E q \in {r} :
               Query([name |-> "GetGlyphHMetrics", arg |-> g], q.v, q.oob, FALSE)

Next ==
    \/ InitFont
    \/ FindGlyphIndex
    \/ GetGlyphBox
    \/ IsGlyphEmpty
    \/ GetGlyphHMetrics

Spec == Init /\ [][Next]_vars

-----------------------------------------------------------------------------
(* Kerning queries on fonts with and without a kern and a GPOS table *)

KernNames == {"none", "horizontal", "vertical"}
GposNames == {"none", "pp1", "pp2", "type1", "v2"}

KernFonts == { [BaseFont EXCEPT !.kern = k, !.gpos = g] : k \in KernNames, g \in GposNames }

InitKern ==
    /\ \E d \in KernFonts : data = FontBytes(d)
    /\ info = FreshInfo(Len(data))
    /\ pc = "fresh"
    /\ op = NoOp
    /\ ret = <<>>
    /\ oob = FALSE
    /\ asserted = FALSE
    /\ ndebug \in BOOLEAN
    /\ wild \in {0, 255}
    /\ spc = NoPack
    /\ buf = NullBuf
    /\ run = NoRun
    /\ calls = <<>>
    /\ ras = NoRas

GetGlyphKernAdvance ==
    /\ pc = "ready"
    /\ \E g1, g2 \in 0..MaxGlyphs :
         LET r == stt_GetGlyphKernAdvance(g1, g2)
         IN  \E q \in {r} :
               Query([name |-> "GetGlyphKernAdvance", arg |-> <<g1, g2>>], <<q.v>>,
                     q.oob, FALSE)

NextKern ==
    \/ InitFont
    \/ GetGlyphKernAdvance

SpecKern == InitKern /\ [][NextKern]_vars

-----------------------------------------------------------------------------
(* The bounds-checked readers applied on their own to a short buffer *)

MaxProbeLen == 4   \* length of the longest buffer the readers are applied to

\* buffer contents; 200 and 129 have the high bit set, so signed results occur
ProbeBytes == <<200, 1, 129, 3, 7>>

\* offsets at, inside and just past the buffer, and offsets near 2^32 and 2^31
\* (negative numbers stand for the unsigned offsets 2^32 - k)
ProbeOffsets == (0..(MaxProbeLen + 1)) \cup {-1, -2, -3, -4, MaxInt32, MinInt32}
ProbeSizes   == {0, 1, 2, 4, -1}

InitReaders ==
    /\ \E n \in 0..MaxProbeLen : data = SubSeq(ProbeBytes, 1, n)
    /\ info = FreshInfo(Len(data))
    /\ pc = "probe"
    /\ op = NoOp
    /\ ret = <<>>
    /\ oob = FALSE
    /\ asserted = FALSE
    /\ ndebug \in BOOLEAN
    /\ wild \in {0, 255}
    /\ spc = NoPack
    /\ buf = NullBuf
    /\ run = NoRun
    /\ calls = <<>>
    /\ ras = NoRas

Probe(o, r) ==
    /\ pc = "probe"
    /\ pc' = "probed"
    /\ op' = o
    /\ ret' = <<r.v>>
    /\ oob' = r.oob
    /\ UNCHANGED <<data, info, asserted, ndebug, wild, spc, buf, run, calls, ras>>

SafeRead8 ==
    \E offset \in ProbeOffsets :
        Probe([name |-> "stt__safe_read8", arg |-> offset, width |-> 1],
              stt__safe_read8(offset))

SafeRead16 ==
    \E offset \in ProbeOffsets :
        Probe([name |-> "stt__safe_read16", arg |-> offset, width |-> 2],
              stt__safe_read16(offset))

SafeRead16Signed ==
    \E offset \in ProbeOffsets :
        Probe([name |-> "stt__safe_read16_signed", arg |-> offset, width |-> 2],
              stt__safe_read16_signed(offset))

SafeRead32 ==
    \E offset \in ProbeOffsets :
        Probe([name |-> "stt__safe_read32", arg |-> offset, width |-> 4],
              stt__safe_read32(offset))

SafeRead32Signed ==
    \E offset \in ProbeOffsets :
        Probe([name |-> "stt__safe_read32_signed", arg |-> offset, width |-> 4],
              stt__safe_read32_signed(offset))

SafeCheckBounds ==
    \E offset \in ProbeOffsets, size \in ProbeSizes :
        Probe([name |-> "stt__safe_check_bounds", arg |-> offset, width |-> size],
              [v |-> stt__safe_check_bounds(offset, size), oob |-> FALSE])

NextReaders ==
    \/ SafeRead8
    \/ SafeRead16
    \/ SafeRead16Signed
    \/ SafeRead32
    \/ SafeRead32Signed
    \/ SafeCheckBounds

SpecReaders == InitReaders /\ [][NextReaders]_vars

-----------------------------------------------------------------------------
(* Glyph outlines of CFF fonts: stt_GetGlyphShape, stt_GetGlyphBox and        *)
(* stt_IsGlyphEmpty on fonts whose glyph 0 is a given charstring              *)

\* the glyph indexes an outline is asked for: those stt_FindGlyphIndex can
\* yield, which are not negative
OutlineProbes == GlyphProbes \ {-1}

Move == CsInt(10) \o CsInt(20) \o rmoveto
Ones(n) == Flatten([i \in 1..n |-> CsInt(1)])

\* an operator that finds fewer operands than it needs
TooFewOperands ==
    { Move \o <<o>> : o \in {21, 4, 22, 5, 6, 7, 10, 29} }
    \cup { Move \o Ones(1) \o <<o>> : o \in {21, 30, 8, 24, 25, 26} }
    \cup { Move \o Ones(6) \o <<12, 34>>, Move \o Ones(12) \o <<12, 35>>,
           Move \o Ones(8) \o <<12, 36>>, Move \o Ones(10) \o <<12, 37>> }
\* local subr 0 calls itself: the eleventh call is refused
NestedTooDeep == { Move \o CsInt(-107) \o callsubr }
ReturnOutsideSubr == { Move \o return, return }
ReservedOperator ==
    { Move \o <<o>> : o \in {0, 2, 17} } \cup { Move \o <<12, e>> : e \in {0, 38} }
StackOverflow == { Move \o Ones(49), Ones(48) \o <<255, 0, 1, 0, 0>> }
\* there are three local subrs and one global subr
MissingSubr ==
    { Move \o CsInt(v) \o callsubr : v \in {-104, -108} }
    \cup { Move \o CsInt(v) \o callgsubr : v \in {-106, 1000} }
\* the last one calls local subr 2, which runs off its end
NoEndchar ==
    { <<>>, Move, Move \o CsInt(30) \o CsInt(0) \o rlineto,
      Move \o CsInt(-105) \o callsubr }

ErrorPrograms ==
    TooFewOperands \cup NestedTooDeep \cup ReturnOutsideSubr \cup ReservedOperator
    \cup StackOverflow \cup MissingSubr \cup NoEndchar

\* every operator once
Mixed ==
    Ones(2) \o <<1>> \o Ones(2) \o <<3>> \o Ones(2) \o <<18>> \o Ones(2) \o <<23>>
    \o Ones(2) \o <<19, 170, 85>> \o <<20, 170, 85>>
    \o CsInt(3) \o <<4>> \o CsInt(4) \o <<22>>
    \o CsInt(1) \o CsInt(2) \o CsInt(3) \o <<6>>
    \o CsInt(1) \o CsInt(-2) \o CsInt(3) \o <<7>>
    \o CsInt(1) \o CsInt(2) \o CsInt(3) \o CsInt(1) \o CsInt(-2) \o CsInt(3) \o <<8>>
    \o CsInt(1) \o CsInt(2) \o CsInt(3) \o CsInt(1) \o CsInt(-2) \o <<27>>
    \o CsInt(1) \o CsInt(2) \o CsInt(3) \o CsInt(1) \o <<26>>
    \o CsInt(1) \o CsInt(2) \o CsInt(3) \o CsInt(1) \o CsInt(-2) \o <<31>>
    \o CsInt(1) \o CsInt(2) \o CsInt(3) \o CsInt(1) \o Ones(4) \o <<30>>
    \o CsInt(1) \o CsInt(2) \o CsInt(3) \o CsInt(1) \o Ones(4) \o <<24>>
    \o CsInt(1) \o CsInt(-2) \o CsInt(-3) \o CsInt(1) \o Ones(4) \o <<25>>
    \o CsInt(1) \o CsInt(2) \o CsInt(3) \o Ones(4) \o <<12, 34>>
    \o CsInt(1) \o CsInt(2) \o CsInt(3) \o Ones(10) \o <<12, 35>>
    \o CsInt(1) \o CsInt(2) \o CsInt(-3) \o Ones(6) \o <<12, 36>>
    \o CsInt(1) \o CsInt(2) \o CsInt(-3) \o Ones(8) \o <<12, 37>>
    \o CsInt(-9) \o CsInt(2) \o CsInt(-3) \o Ones(8) \o <<12, 37>>
    \o endchar

\* operands with a fraction, and operands of two and three bytes
Fractions ==
    <<255, 0, 0, 128, 0>> \o <<255, 255, 255, 128, 0>> \o rmoveto
    \o <<255, 255, 254, 128, 0>> \o CsInt(2) \o CsInt(-200) \o <<247, 0>> \o <<251, 1>>
    \o <<255, 0, 3, 192, 0>> \o rlineto
    \o endchar

GoodPrograms ==
    { endchar, Triangle, Mixed, Fractions,
      Move \o CsInt(-106) \o callsubr \o CsInt(-107) \o callgsubr,
      Move \o CsInt(-106) \o callsubr \o CsInt(4) \o CsInt(4) \o rlineto \o endchar }

CharstringFont(program, cid) ==
    [BaseFont EXCEPT !.kind = "cff", !.cff = "charstring", !.cs = program, !.cid = cid]

CharstringFonts ==
    { CharstringFont(p, "no") : p \in ErrorPrograms \cup GoodPrograms }
    \cup { CharstringFont(p, c) :
             p \in NestedTooDeep
                   \cup { Move \o CsInt(-104) \o callsubr,
                          Move \o CsInt(-106) \o callsubr \o CsInt(-107) \o callgsubr },
             c \in {"covered", "uncovered"} }

InitCharstring ==
    /\ \E d \in CharstringFonts : data = FontBytes(d)
    /\ info = FreshInfo(Len(data))
    /\ pc = "fresh"
    /\ op = NoOp
    /\ ret = <<>>
    /\ oob = FALSE
    /\ asserted = FALSE
    /\ ndebug \in BOOLEAN
    /\ wild \in {0, 255}
    /\ spc = NoPack
    /\ buf = NullBuf
    /\ run = NoRun
    /\ calls = <<>>
    /\ ras = NoRas

\* stt_GetGlyphShape: ret is <<the return value, whether *pvertices is not
\* NULL, the vertices>>.  A store through a NULL array ends the program.
GetGlyphShape ==
    /\ pc = "ready"
    /\ \E g \in OutlineProbes, alloc \in BOOLEAN :
         LET r == stt_GetGlyphShape(g, alloc)
         IN  \E q \in {r} :
               /\ op' = [name |-> "GetGlyphShape", arg |-> g, alloc |-> alloc]
               /\ ret' = IF q.asrt \/ q.null THEN <<>> ELSE <<q.v, q.pv, q.verts>>
               /\ oob' = (q.oob \/ q.heap)
               /\ asserted' = q.asrt
               /\ pc' = IF q.asrt THEN "aborted" ELSE IF q.null THEN "crashed" ELSE pc
               /\ UNCHANGED <<data, info, ndebug, wild, spc, buf, run, calls, ras>>

NextCharstring ==
    \/ InitFont
    \/ GetGlyphShape
    \/ GetGlyphBox
    \/ IsGlyphEmpty

SpecCharstring == InitCharstring /\ [][NextCharstring]_vars

----------------------------------------------------------------------------
(* Outlines and bitmaps of glyf and CFF glyphs *)

OutlineNames == {"triangle", "curves", "offstart", "repeat"}

OutlineFonts ==
    { [BaseFont EXCEPT !.outline = o, !.locFormat = l] : o \in OutlineNames, l \in 0..1 }
    \cup { CharstringFont(p, "no") :
             p \in { Triangle, Mixed, Fractions, Move \o CsInt(-107) \o callsubr } }

\* scale_x and scale_y of a bitmap call
Scales ==
    { << <<1, 1>>, <<1, 1>> >>, << <<1, 2>>, <<1, 2>> >>, << <<3, 4>>, <<1, 2>> >>,
      << <<0, 1>>, <<1, 1>> >>, << <<1, 2>>, <<0, 1>> >>, << <<0, 1>>, <<0, 1>> >> }

InitOutline ==
    /\ \E d \in OutlineFonts : data = FontBytes(d)
    /\ info = FreshInfo(Len(data))
    /\ pc = "fresh"
    /\ op = NoOp
    /\ ret = <<>>
    /\ oob = FALSE
    /\ asserted = FALSE
    /\ ndebug \in BOOLEAN
    /\ wild \in {0, 255}
    /\ spc = NoPack
    /\ buf = NullBuf
    /\ run = NoRun
    /\ calls = <<>>
    /\ ras = NoRas

\* stt_GetGlyphBitmap: ret is <<whether the pixel array is not NULL>> followed
\* by the width, height, xoff and yoff stored
GetGlyphBitmap ==
    /\ pc = "ready"
    /\ \E g \in OutlineProbes, scale \in Scales :
         LET r == stt_GetGlyphBitmap(scale[1], scale[2], g)
         IN  \E q \in {r} :
               Query([name |-> "GetGlyphBitmap", arg |-> g, scale |-> scale],
                     <<q.pixels>> \o q.out, q.oob \/ q.heap, q.asrt)

NextOutline ==
    \/ InitFont
    \/ GetGlyphShape
    \/ GetGlyphBitmap

SpecOutline == InitOutline /\ [][NextOutline]_vars

----------------------------------------------------------------------------
(* Packing the glyphs of ranges of codepoints into an atlas *)

\* fonts whose cmap maps 65 and 66 to the glyphs 1 and 2 and every other
\* codepoint to the missing-character glyph 0
PackFonts ==
    { [BaseFont EXCEPT !.outline = o, !.numGlyphs = MaxGlyphs + 1] :
        o \in {"triangle", "notdef", "inverted"} }

\* <<pw, ph>> of an atlas: narrower than a glyph at the full size, one row of
\* glyphs high, and room for several rows
AtlasSizes == { <<64, 512>>, <<256, 128>>, <<256, 512>> }

\* font sizes: the height of the font (ascent - descent), and half of it
PackSizes == {1000, 500}

CodepointRange(size, first, n) ==
    [font_size |-> size, first_unicode_codepoint_in_range |-> first,
     array_of_unicode_codepoints |-> <<>>, num_chars |-> n]

CodepointArray(size, cs) ==
    [font_size |-> size, first_unicode_codepoint_in_range |-> 0,
     array_of_unicode_codepoints |-> cs, num_chars |-> Len(cs)]

\* the ranges of a pack call; 90 and 91 have no glyph
PackRanges ==
    UNION { { << CodepointRange(size, 65, 2) >>,
              << CodepointArray(size, <<90, 65, 91>>) >> } : size \in PackSizes }
    \cup { << CodepointArray(1000, <<66, 65, 66>>) >>,
           << CodepointArray(1000, <<65, 90>>), CodepointArray(1000, <<66, 91>>) >>,
           << CodepointArray(1000, <<90, 65>>), CodepointArray(500, <<66, 91>>) >>,
           << CodepointRange(1000, 89, 2), CodepointRange(1000, 91, 1) >> }

MaxDrawn == 1   \* areas rendered in the atlas before the last pack call

InitPack ==
    /\ \E d \in PackFonts : data = FontBytes(d)
    /\ info = FreshInfo(Len(data))
    /\ pc = "fresh"
    /\ op = NoOp
    /\ ret = <<>>
    /\ oob = FALSE
    /\ asserted = FALSE
    /\ ndebug \in BOOLEAN
    /\ wild \in {0, 255}
    /\ spc = NoPack
    /\ buf = NullBuf
    /\ run = NoRun
    /\ calls = <<>>
    /\ ras = NoRas

\* stt_PackBegin(spc, pixels, pw, ph, 0, padding, NULL); alloc says whether
\* its allocations succeed
PackBegin ==
    /\ pc = "ready"
    /\ spc.width = 0
    /\ \E size \in AtlasSizes, padding \in 0..1, alloc \in BOOLEAN :
         /\ op' = [name |-> "PackBegin", pw |-> size[1], ph |-> size[2],
                   padding |-> padding, alloc |-> alloc]
         /\ spc' = IF alloc THEN stt_PackBegin(size[1], size[2], padding) ELSE spc
         /\ ret' = IF alloc THEN <<1>> ELSE <<0>>
    /\ oob' = FALSE
    /\ asserted' = FALSE
    /\ UNCHANGED <<data, info, pc, ndebug, wild, buf, run, calls, ras>>

\* stt_PackSetSkipMissingCodepoints(spc, skip), called right after
\* stt_PackBegin to change the setting
PackSetSkipMissingCodepoints ==
    /\ pc = "ready"
    /\ spc.width > 0
    /\ op.name = "PackBegin"
    /\ \E skip \in (0..1) \ {spc.skip_missing} :
         /\ op' = [name |-> "PackSetSkipMissingCodepoints", skip |-> skip]
         /\ spc' = [spc EXCEPT !.skip_missing = skip]
    /\ ret' = <<>>
    /\ oob' = FALSE
    /\ asserted' = FALSE
    /\ UNCHANGED <<data, info, pc, ndebug, wild, buf, run, calls, ras>>

\* stt_PackFontRanges(spc, data, data_size, 0, ranges, num_ranges) on the
\* buffer the handle was initialised from (its own stt_InitFont yields the
\* same handle).  ret is <<return value, records of the ranges, rectangles>>.
PackFontRanges ==
    /\ pc = "ready"
    /\ spc.width > 0
    /\ Len(spc.pixels) <= MaxDrawn
    /\ \E ranges \in PackRanges :
         /\ op' = [name |-> "PackFontRanges", ranges |-> ranges]
         /\ LET r == stt_PackFontRanges(spc, ranges)
            IN  \E q \in {r} :
                  /\ spc' = q.spc
                  /\ ret' = IF q.asrt THEN <<>> ELSE <<q.v, q.chardata, q.rects>>
                  /\ oob' = q.oob
                  /\ asserted' = q.asrt
                  /\ pc' = IF q.asrt THEN "aborted" ELSE pc
    /\ UNCHANGED <<data, info, ndebug, wild, buf, run, calls, ras>>

NextPack ==
    \/ InitFont
    \/ PackBegin
    \/ PackSetSkipMissingCodepoints
    \/ PackFontRanges

SpecPack == InitPack /\ [][NextPack]_vars

----------------------------------------------------------------------------
(* Horizontal metrics of fonts with small and large advances and with positive *)
(* and negative left side bearings                                             *)

MetricsFonts ==
    { [BaseFont EXCEPT !.advance = a, !.lsb = l, !.numLong = h] :
        a \in {500, 32767, 40000}, l \in {10, -300}, h \in 1..MaxGlyphs }

InitMetrics ==
    /\ \E d \in MetricsFonts : data = FontBytes(d)
    /\ info = FreshInfo(Len(data))
    /\ pc = "fresh"
    /\ op = NoOp
    /\ ret = <<>>
    /\ oob = FALSE
    /\ asserted = FALSE
    /\ ndebug \in BOOLEAN
    /\ wild \in {0, 255}
    /\ spc = NoPack
    /\ buf = NullBuf
    /\ run = NoRun
    /\ calls = <<>>
    /\ ras = NoRas

NextMetrics ==
    \/ InitFont
    \/ GetGlyphHMetrics

SpecMetrics == InitMetrics /\ [][NextMetrics]_vars

-----------------------------------------------------------------------------
(* Font files and collections: stt_GetNumberOfFonts, stt_GetFontOffsetForIndex *)

Tag1    == <<49, 0, 0, 0>>
TagTyp1 == <<116, 121, 112, 49>>
TagOTTO == <<79, 84, 84, 79>>
Tag0100 == <<0, 1, 0, 0>>
TagTrue == <<116, 114, 117, 101>>
TagTtcf == <<116, 116, 99, 102>>

\* check the version number
stt__isfont(font) ==
    \E t \in {Tag1, TagTyp1, TagOTTO, Tag0100, TagTrue} : stt_tag(font, t)

\* stt_tag(font_collection, "ttcf") and a version of 1 or 2
IsCollection(font_collection) ==
    /\ stt_tag(font_collection, TagTtcf)
    /\ ttULONG(PtrAdd(font_collection, 4)).v \in {65536, 131072}

\* the loads of the header tests that fall outside the buffer
HeaderOob(font_collection) ==
    \/ ~InBuf(font_collection)
    \/ ~stt__isfont(font_collection) /\ stt_tag(font_collection, TagTtcf)
       /\ ttULONG(PtrAdd(font_collection, 4)).oob

stt_GetFontOffsetForIndex_internal(font_collection, index) ==
    IF stt__isfont(font_collection)
    THEN [v |-> IF index = 0 THEN 0 ELSE -1, oob |-> HeaderOob(font_collection)]
    ELSE IF IsCollection(font_collection)
    THEN Let(ttULONG(PtrAdd(font_collection, 8)), LAMBDA n :
             IF index >= n.v THEN [v |-> -1, oob |-> HeaderOob(font_collection) \/ n.oob]
             ELSE Let(ttULONG(PtrAdd(font_collection, 12 + index * 4)), LAMBDA r :
                      [v |-> r.v, oob |-> HeaderOob(font_collection) \/ n.oob \/ r.oob]))
    ELSE [v |-> -1, oob |-> HeaderOob(font_collection)]

stt_GetNumberOfFonts_internal(font_collection) ==
    IF stt__isfont(font_collection) THEN [v |-> 1, oob |-> HeaderOob(font_collection)]
    ELSE IF IsCollection(font_collection)
    THEN Let(ttULONG(PtrAdd(font_collection, 8)), LAMBDA n :
             [v |-> n.v, oob |-> HeaderOob(font_collection) \/ n.oob])
    ELSE [v |-> 0, oob |-> HeaderOob(font_collection)]

MaxFonts == 3   \* fonts in a collection

\* the offset of font i of a collection file with n fonts
FontOffsetInFile(n, i) == 12 + 4 * n + 64 * i

\* a collection file: "ttcf", the version, the number of fonts and the offset
\* array at byte 12; the fonts themselves are left out
CollectionBytes(version, n) ==
    TagTtcf \o B32(version * 65536) \o B32(n)
    \o Flatten([i \in 1..n |-> B32(FontOffsetInFile(n, i - 1))])

\* the files: plain fonts of every recognised kind, collections of versions 1
\* and 2, a collection of an unknown version, and files that are neither
FileHeads ==
    { t \o Zeros(8) : t \in {Tag1, TagTyp1, TagOTTO, Tag0100, TagTrue} }
    \cup { CollectionBytes(v, n) : v \in 1..3, n \in 0..MaxFonts }
    \cup { <<119, 79, 70, 70>> \o Zeros(8), Zeros(12) }

FontIndexes == (-3)..(MaxFonts + 1)

InitFiles ==
    /\ data \in FileHeads
    /\ info = FreshInfo(Len(data))
    /\ pc = "probe"
    /\ op = NoOp
    /\ ret = <<>>
    /\ oob = FALSE
    /\ asserted = FALSE
    /\ ndebug \in BOOLEAN
    /\ wild \in {0, 255}
    /\ spc = NoPack
    /\ buf = NullBuf
    /\ run = NoRun
    /\ calls = <<>>
    /\ ras = NoRas

GetNumberOfFonts ==
    Probe([name |-> "GetNumberOfFonts"], stt_GetNumberOfFonts_internal(0))

GetFontOffsetForIndex ==
    \E index \in FontIndexes :
        Probe([name |-> "GetFontOffsetForIndex", arg |-> index],
              stt_GetFontOffsetForIndex_internal(0, index))

NextFiles ==
    \/ GetNumberOfFonts
    \/ GetFontOffsetForIndex

SpecFiles == InitFiles /\ [][NextFiles]_vars

-----------------------------------------------------------------------------
(* SVG documents of fonts with and without an SVG table *)

\* a program that is handed the bytes of one of the fonts and has not yet
\* initialised its handle
InitOf(fonts) ==
    /\ \E d \in fonts : data = FontBytes(d)
    /\ info = FreshInfo(Len(data))
    /\ pc = "fresh"
    /\ op = NoOp
    /\ ret = <<>>
    /\ oob = FALSE
    /\ asserted = FALSE
    /\ ndebug \in BOOLEAN
    /\ wild \in {0, 255}
    /\ spc = NoPack
    /\ buf = NullBuf
    /\ run = NoRun
    /\ calls = <<>>
    /\ ras = NoRas

SvgNames == {"none", "one", "two", "empty"}

SvgFonts == { [k EXCEPT !.svg = s] : k \in {BaseFont, BaseCFF}, s \in SvgNames }

InitSvg == InitOf(SvgFonts)

\* stt_GetGlyphSVG(info, gl, &svg): ret is the value returned and what is
\* stored in svg; the call may resolve info->svg
GetGlyphSVG ==
    /\ pc = "ready"
    /\ \E gl \in GlyphProbes :
         LET r == stt_GetGlyphSVG(info, gl)
         IN  \E q \in {r} :
               /\ op' = [name |-> "GetGlyphSVG", arg |-> gl]
               /\ ret' = <<q.v, q.svg>>
               /\ info' = q.info
               /\ oob' = q.oob
               /\ UNCHANGED <<data, pc, asserted, ndebug, wild, spc, buf, run, calls, ras>>

NextSvg ==
    \/ InitFont
    \/ GetGlyphSVG

SpecSvg == InitSvg /\ [][NextSvg]_vars

----------------------------------------------------------------------------
(* The cursor operations of stt__buf applied in any order to a short buffer *)

\* cursor positions, offsets and sizes: before, in and past the buffer, and the
\* ends of the int range
BufOffsets == {-1, 0, 1, MaxProbeLen - 1, MaxProbeLen + 1, MaxInt32, MinInt32}
BufSizes   == {-1, 0, 1, 2, MaxProbeLen, MaxInt32}

\* a stt__buf over the whole of a short buffer
InitBuf ==
    /\ \E n \in 0..MaxProbeLen : data = SubSeq(ProbeBytes, 1, n)
    /\ info = FreshInfo(Len(data))
    /\ pc = "probe"
    /\ op = NoOp
    /\ ret = <<>>
    /\ oob = FALSE
    /\ asserted = FALSE
    /\ ndebug \in BOOLEAN
    /\ wild \in {0, 255}
    /\ spc = NoPack
    /\ buf = stt__new_buf(0, Len(data))
    /\ run = NoRun
    /\ calls = <<>>
    /\ ras = NoRas

\* an operation on buf that yields the values v and leaves the buffer b; the
\* operation record keeps the buffer it was applied to
BufOp(o, v, b, outside, failed) ==
    /\ pc = "probe"
    /\ op' = [o EXCEPT !.before = buf]
    /\ ret' = IF failed THEN <<>> ELSE v
    /\ buf' = b
    /\ oob' = outside
    /\ asserted' = failed
    /\ pc' = IF failed THEN "aborted" ELSE pc
    /\ UNCHANGED <<data, info, ndebug, wild, spc, run, calls, ras>>

BufGet8 ==
    LET r == stt__buf_get8(buf)
    IN  \E q \in {r} : BufOp([name |-> "get8", before |-> <<>>], <<q.v>>, q.b, q.oob, FALSE)

BufPeek8 ==
    LET r == stt__buf_peek8(buf)
    IN  \E q \in {r} : BufOp([name |-> "peek8", before |-> <<>>], <<q.v>>, buf, q.oob, FALSE)

BufGet ==
    \E n \in 0..5 :
        LET r == stt__buf_get(buf, n)
        IN  \E q \in {r} :
              BufOp([name |-> "get", arg |-> n, before |-> <<>>], <<q.v>>, q.b, q.oob, q.asrt)

BufSeek ==
    \E o \in BufOffsets :
        BufOp([name |-> "seek", arg |-> o, before |-> <<>>], <<>>, stt__buf_seek(buf, o),
              FALSE, FALSE)

\* b->cursor + o overflows the int
SkipOverflows(b, o) ==
    \/ o > 0 /\ b.cursor > MaxInt32 - o
    \/ o < 0 /\ b.cursor < MinInt32 - o

\* stt__buf_skip: when b->cursor + o overflows, which is undefined, the sum
\* handed to stt__buf_seek is any int
BufSkip ==
    \E o \in BufOffsets :
        IF SkipOverflows(buf, o)
        THEN \E sum \in BufOffsets \cup {Add32(buf.cursor, o)} :
               BufOp([name |-> "skip", arg |-> o, before |-> <<>>, overflow |-> TRUE], <<>>,
                     stt__buf_seek(buf, sum), FALSE, FALSE)
        ELSE BufOp([name |-> "skip", arg |-> o, before |-> <<>>, overflow |-> FALSE], <<>>,
                   stt__buf_skip(buf, o), FALSE, FALSE)

\* buf = stt__buf_range(&buf, o, s): the operations go on in the sub-buffer
BufRange ==
    \E o \in BufOffsets, s \in BufSizes :
        BufOp([name |-> "range", arg |-> <<o, s>>, before |-> <<>>], <<>>,
              stt__buf_range(buf, o, s), FALSE, FALSE)

NextBuf ==
    \/ BufGet8
    \/ BufPeek8
    \/ BufGet
    \/ BufSeek
    \/ BufSkip
    \/ BufRange

SpecBuf == InitBuf /\ [][NextBuf]_vars

----------------------------------------------------------------------------
(* Codepoint lookup in well-formed format-4 subtables *)

MaxSegments == 5   \* segments of a format-4 subtable, the last one included

\* Segment i of n ends at 5 * i.  Its start is its end ("single"), two below
\* ("gaps") or one past the end of the segment before ("wide"); it maps by
\* idDelta ("delta"), through the glyph array ("array"), or the odd segments
\* the one way and the even ones the other ("mixed").  The last segment is
\* [0xFFFF, 0xFFFF] with idDelta 1.
Segment(i, width, mapping) ==
    LET start == CASE width = "single" -> 5 * i
                   [] width = "gaps"   -> 5 * i - 2
                   [] width = "wide"   -> 5 * i - 4
        array == mapping = "array" \/ (mapping = "mixed" /\ i % 2 = 1)
    IN  [start  |-> start, end |-> 5 * i,
         delta  |-> IF array THEN 7 ELSE 10 * i - start,
         glyphs |-> IF array THEN [k \in 1..(5 * i - start + 1) |-> 100 * i + k] ELSE <<>>]

Segments(n, width, mapping) ==
    [i \in 1..n |-> IF i = n THEN [start |-> 65535, end |-> 65535, delta |-> 1, glyphs |-> <<>>]
                    ELSE Segment(i, width, mapping)]

SegmentFonts ==
    { [BaseFont EXCEPT !.sub = "segments", !.segs = Segments(n, w, m)] :
        n \in 1..MaxSegments, w \in {"single", "gaps", "wide"},
        m \in {"delta", "array", "mixed"} }

\* every codepoint up to the last segment but one, and those around 0xFFFF
SegmentCodepoints == ((-1)..(5 * MaxSegments - 4)) \cup {65534, 65535, 65536, 1114111}

InitSegments == InitOf(SegmentFonts)

FindGlyphIndexInSegments ==
    /\ pc = "ready"
    /\ \E c \in SegmentCodepoints :
         LET r == stt_FindGlyphIndex(c)
         IN  \E q \in {r} :
               Query([name |-> "FindGlyphIndex", arg |-> c], <<q.v>>, q.oob, q.asrt)

NextSegments ==
    \/ InitFont
    \/ FindGlyphIndexInSegments

SpecSegments == InitSegments /\ [][NextSegments]_vars

----------------------------------------------------------------------------
(* The charstring interpreter, one iteration of its loop at a time *)

MaxOperands == 14   \* operands pushed before the operator of a glyph
StackSize == 48     \* float s[48]

\* one-byte operators (some of them reserved), and the two-byte escapes
Operators ==
    { <<b>> : b \in {0, 1, 3, 4, 5, 6, 7, 8, 10, 11, 14, 18, 19, 20, 21, 22, 23, 24, 25,
                     26, 27, 29, 30, 31} }
    \cup { <<12, b1>> : b1 \in {0, 34, 35, 36, 37} }

\* glyph i pushes counts[i] operands, runs the operator and ends
OperandGlyphs(operator, counts) ==
    [i \in 1..Len(counts) |-> Ones(counts[i]) \o operator \o endchar]

GlyphsFont(glyphs, subrs) ==
    [BaseFont EXCEPT !.kind = "cff", !.cff = "glyphs", !.cs = glyphs, !.subrs = subrs,
                     !.numGlyphs = Len(glyphs)]

\* local subrs that call themselves and each other: 3 and 4 call each other, 5
\* calls 1 twice, 6 calls itself with five operands left on the stack, 7 calls
\* the global subr 0 and 8 calls 5 twice
CyclicSubrs ==
    CsSubrs
    \o << CsInt(-103) \o callsubr,
          CsInt(-104) \o callsubr,
          CsInt(-106) \o callsubr \o CsInt(-106) \o callsubr \o return,
          Ones(5) \o CsInt(-101) \o callsubr,
          Move \o CsInt(-107) \o callgsubr,
          CsInt(-102) \o callsubr \o CsInt(-102) \o callsubr \o return >>

\* glyph i calls local subr i - 1
CallingGlyphs == [i \in 1..Len(CyclicSubrs) |-> Move \o CsInt(i - 108) \o callsubr \o endchar]

RunFonts ==
    { GlyphsFont(OperandGlyphs(o, [i \in 1..(MaxOperands + 1) |-> i - 1]), CsSubrs) :
        o \in Operators }
    \cup { GlyphsFont(OperandGlyphs(o, <<StackSize - 1, StackSize, StackSize + 1>>), CsSubrs) :
             o \in Operators }
    \cup { GlyphsFont(CallingGlyphs, CyclicSubrs) }

InitRun == InitOf(RunFonts)

\* stt__run_charstring up to its loop, for a glyph of the font
StartCharstring ==
    /\ pc = "ready"
    /\ info.cff.size # 0
    /\ run = NoRun
    /\ \E g \in 0..(stt__cff_index_count(info.charstrings).v - 1) :
         LET r == CsStart(stt__cff_index_get(info.charstrings, g), CsctxInit(TRUE, 0))
         IN  \E q \in {r} :
               /\ run' = q
               /\ op' = [name |-> "run_charstring", arg |-> g]
               /\ oob' = q.oob
               /\ asserted' = q.asrt
               /\ pc' = IF q.asrt THEN "aborted" ELSE pc
               /\ UNCHANGED <<data, info, ret, ndebug, wild, spc, buf, calls, ras>>

\* one iteration of while (b.cursor < b.size), or the return after the loop
StepCharstring ==
    /\ pc = "ready"
    /\ run.r = "run"
    /\ LET r == CsIterate(run, op.arg, 0)
       IN  \E q \in {r} :
             /\ run' = q
             /\ oob' = q.oob
             /\ asserted' = q.asrt
             /\ pc' = IF q.asrt THEN "aborted" ELSE pc
             /\ UNCHANGED <<data, info, op, ret, ndebug, wild, spc, buf, calls, ras>>

NextRun ==
    \/ InitFont
    \/ StartCharstring
    \/ StepCharstring

SpecRun == InitRun /\ [][NextRun]_vars

\* The loop of a run under way goes on: weak fairness of StepCharstring, which
\* is []<>(~ENABLED <<StepCharstring>>_vars) \/ []<><<StepCharstring>>_vars, with
\* the guard of the action for ENABLED, as every iteration changes run (it
\* moves the cursor of b or ends the run).
RunGoesOn ==
    []<>~(pc = "ready" /\ run.r = "run") \/ []<><<StepCharstring>>_vars

SpecRunFair == SpecRun /\ RunGoesOn

----------------------------------------------------------------------------
(* The vertices of glyphs whose charstring draws before it moves *)

\* the operators that draw lines and curves
DrawingOperators ==
    { <<b>> : b \in {5, 6, 7, 8, 24, 25, 26, 27, 30, 31} }
    \cup { <<12, b1>> : b1 \in {34, 35, 36, 37} }

\* glyf outlines, charstrings that start with a move, and charstrings whose
\* first operator draws, with 4, 8 and 13 operands
ShapeFonts ==
    OutlineFonts
    \cup { GlyphsFont(OperandGlyphs(o, <<4, 8, 13>>), CsSubrs) : o \in DrawingOperators }

InitShapes == InitOf(ShapeFonts)

NextShapes ==
    \/ InitFont
    \/ GetGlyphShape

SpecShapes == InitShapes /\ [][NextShapes]_vars

----------------------------------------------------------------------------
(* The vertex array of a simple glyph while it is decoded *)

MaxPoints == 4     \* points of a simple glyph
MaxContours == 2   \* contours of a simple glyph

\* the arrays of 1..n numbers below k
RECURSIVE ArraysBelow(_, _)
ArraysBelow(n, k) ==
    IF n = 0 THEN {}
    ELSE { <<e>> : e \in 0..(k - 1) }
         \cup { Append(a, e) : a \in ArraysBelow(n - 1, k), e \in 0..(k - 1) }

\* A glyph whose endPtsOfContours is ends, with 1 + the last entry points:
\* point i is on the curve when on[i], and point i is at (10 * i, 5 * i) from
\* the point before it.
PointsOf(ends, on) ==
    [ends  |-> ends,
     flags |-> [i \in 1..Len(on) |-> IF on[i] THEN 55 ELSE 54],
     xy    |-> [i \in 1..Len(on) |-> 10 * i] \o [i \in 1..Len(on) |-> 5 * i]]

\* every endPtsOfContours array and every choice of points on and off the curve
PointsFonts ==
    { [BaseFont EXCEPT !.outline = "points", !.points = PointsOf(ends, on)] :
        ends \in ArraysBelow(MaxContours, MaxPoints),
        on \in UNION { [1..n -> BOOLEAN] : n \in 1..MaxPoints } }

InitPoints ==
    /\ \E d \in PointsFonts :
         /\ Len(d.points.flags) = 1 + d.points.ends[Len(d.points.ends)]
         /\ data = FontBytes(d)
    /\ info = FreshInfo(Len(data))
    /\ pc = "fresh"
    /\ op = NoOp
    /\ ret = <<>>
    /\ oob = FALSE
    /\ asserted = FALSE
    /\ ndebug \in BOOLEAN
    /\ wild \in {0, 255}
    /\ spc = NoPack
    /\ buf = NullBuf
    /\ run = NoRun
    /\ calls = <<>>
    /\ ras = NoRas

\* stt__GetGlyphShapeTT of a simple glyph, the vertex array allocated: ret is
\* <<the return value, the vertices>>, and the operation record tells whether
\* the decoding went past the array or stored over a raw entry not yet loaded
GetSimpleGlyphShape ==
    /\ pc = "ready"
    /\ info.cff.size = 0
    /\ \E g \in OutlineProbes :
         LET r == stt__GetGlyphShapeTT(g, TRUE)
         IN  \E q \in {r} :
               /\ q.pv
               /\ op' = [name |-> "GetGlyphShapeTT", arg |-> g, heap |-> q.heap,
                         clobber |-> q.clobber]
               /\ ret' = <<q.v, q.verts>>
               /\ oob' = (q.oob \/ q.heap)
               /\ UNCHANGED <<data, info, pc, asserted, ndebug, wild, spc, buf, run, calls, ras>>

NextPoints ==
    \/ InitFont
    \/ GetSimpleGlyphShape

SpecPoints == InitPoints /\ [][NextPoints]_vars

----------------------------------------------------------------------------
(* Sorting the edges *)

MaxEdges   == 30   \* edges of the longest array sorted
MaxShort   == 4    \* length up to which every array of three values is sorted
MaxModulus == 5    \* distinct y0 values of a long array

\* arrays longer than this are partitioned
Threshold == 12

\* the k-th edge of an array, with y0 = y: x0 tells the edges of an array apart
EdgeAt(k, y) == [x0 |-> k, y0 |-> y, x1 |-> k + 1, y1 |-> y + 1, invert |-> 0]

EdgesOf(ys) == [k \in 1..Len(ys) |-> EdgeAt(k, ys[k])]

\* The y0 values sorted: every short array of three values, every array of
\* two values just over the threshold, and longer arrays whose values rise,
\* fall and repeat
EdgeValues ==
    UNION { [1..n -> 0..2] : n \in 0..MaxShort }
    \cup [1..(Threshold + 1) -> 0..1]
    \cup { [k \in 1..n |-> (a * k) % q] : n \in Threshold..MaxEdges, q \in 1..MaxModulus,
                                          a \in 0..(MaxModulus - 1) }
    \cup { [k \in 1..n |-> (a * k * k + k) % q] : n \in Threshold..MaxEdges,
                                                  q \in 1..MaxModulus, a \in 1..2 }
    \cup { [k \in 1..n |-> IF up THEN k ELSE n - k] : n \in Threshold..MaxEdges,
                                                     up \in BOOLEAN }

\* a program that has no font
InitBare ==
    /\ data = <<>>
    /\ info = FreshInfo(0)
    /\ pc = "probe"
    /\ op = NoOp
    /\ ret = <<>>
    /\ oob = FALSE
    /\ asserted = FALSE
    /\ ndebug \in BOOLEAN
    /\ wild = 0
    /\ spc = NoPack
    /\ buf = NullBuf
    /\ run = NoRun
    /\ calls = <<>>
    /\ ras = NoRas

\* stt__sort_edges, once: ret is <<the array as it is left, whether an entry
\* outside the array was used>>
SortEdges ==
    /\ pc = "probe"
    /\ op = NoOp
    /\ \E ys \in EdgeValues :
         LET r == stt__sort_edges(EdgesOf(ys))
         IN  \E q \in {r} :
               /\ op' = [name |-> "sort_edges", arg |-> EdgesOf(ys)]
               /\ ret' = <<q.a, q.bad>>
    /\ UNCHANGED <<data, info, pc, oob, asserted, ndebug, wild, spc, buf, run, calls, ras>>

NextSort == SortEdges

SpecSort == InitBare /\ [][NextSort]_vars

----------------------------------------------------------------------------
(* Rasterizing polygons, one loop of a row at a time *)

MaxRows == 2   \* rows of the tallest bitmap

\* the y coordinates of the points, in units of 1/Grid of a pixel
PointYs == {-4, -3, 0, 1, 4}

\* the shapes rasterized: triangles with one upright side
Polygons ==
    { << << [x |-> 0, y |-> a], [x |-> 0, y |-> b], [x |-> 8, y |-> c] >> >> :
        a \in PointYs, b \in PointYs, c \in PointYs }

\* stt_Rasterize of a shape without curves, up to the first row
Rasterize ==
    /\ pc = "probe"
    /\ ras = NoRas
    /\ \E w \in Polygons, invert \in BOOLEAN, off_y \in -1..1, h \in 0..MaxRows, alloc \in BOOLEAN :
         /\ ras' = StartRows(w, invert, off_y, h, alloc)
         /\ op' = [name |-> "Rasterize", arg |-> w, invert |-> invert, off_y |-> off_y, h |-> h,
                  alloc |-> alloc]
    /\ UNCHANGED <<data, info, pc, ret, oob, asserted, ndebug, wild, spc, buf, run, calls>>

\* a step of the rasterizer leaves the locals r
RasterStep(r) ==
    /\ ras' = r
    /\ asserted' = (r.at = "aborted")
    /\ pc' = IF r.at = "aborted" THEN "aborted" ELSE pc
    /\ UNCHANGED <<data, info, op, ret, oob, ndebug, wild, spc, buf, run, calls>>

RemoveEnded ==
    /\ pc = "probe"
    /\ ras.at = "remove"
    /\ RasterStep(RemoveEndedEdges(ras))

InsertEdge ==
    /\ pc = "probe"
    /\ ras.at = "insert"
    /\ \E alloc \in BOOLEAN : RasterStep(InsertNextEdge(ras, alloc))

FillActiveEdges ==
    /\ pc = "probe"
    /\ ras.at = "fill"
    /\ RasterStep(FillRow(ras))

NextRaster ==
    \/ Rasterize
    \/ RemoveEnded
    \/ InsertEdge
    \/ FillActiveEdges

SpecRaster == InitBare /\ [][NextRaster]_vars

----------------------------------------------------------------------------
(* Composite glyphs, one step of the decoder at a time *)

\* how many activations of stt__GetGlyphShapeTT the stack of the program has
\* room for
MaxFrames == 6

\* the component flags
ARGS_ARE_WORDS  == 1
ARGS_ARE_XY     == 2
HAVE_SCALE      == 8
MORE_COMPONENTS == 32
HAVE_XY_SCALE   == 64
HAVE_2X2        == 128

Component(flags, gidx, args, scale) ==
    [flags |-> flags, gidx |-> gidx, args |-> args, scale |-> scale]

\* The component records of glyphs 0 to 3, by name; a glyph without records
\* is not composite: glyph 0 is empty, glyph 3 has no contours and the
\* others are triangles.
Components(name) ==
    CASE name = "offsets" ->
             \* twice glyph 1: moved by bytes, and halved and moved by words
             << <<>>, <<>>,
                << Component(ARGS_ARE_XY + MORE_COMPONENTS, 1, <<5, -3>>, <<>>),
                   Component(ARGS_ARE_WORDS + ARGS_ARE_XY + HAVE_SCALE, 1, <<100, 200>>,
                             <<8192>>) >>,
                <<>> >>
      [] name = "nested" ->
             \* glyph 3 mirrors and flattens glyph 2, which is glyph 1
             << <<>>, <<>>,
                << Component(ARGS_ARE_XY, 1, <<0, 0>>, <<>>) >>,
                << Component(ARGS_ARE_XY + HAVE_XY_SCALE, 2, <<10, 20>>, <<-16384, 8192>>) >> >>
      [] name = "rotated" ->
             \* glyph 1 turned by a right angle
             << <<>>, <<>>,
                << Component(ARGS_ARE_XY + HAVE_2X2, 1, <<0, 0>>, <<0, 16384, -16384, 0>>) >>,
                <<>> >>
      [] name = "self" ->
             \* glyph 1 is a component of itself
             << <<>>, << Component(ARGS_ARE_XY, 1, <<0, 0>>, <<>>) >>, <<>>, <<>> >>
      [] name = "cycle" ->
             \* glyph 1 has glyph 2 as a component and glyph 2 glyph 1
             << <<>>,
                << Component(ARGS_ARE_XY, 2, <<0, 0>>, <<>>) >>,
                << Component(ARGS_ARE_XY, 1, <<0, 0>>, <<>>) >>,
                <<>> >>
      [] name = "selfafter" ->
             \* glyph 2 is glyph 0 and then itself
             << <<>>, <<>>,
                << Component(ARGS_ARE_XY + MORE_COMPONENTS, 0, <<0, 0>>, <<>>),
                   Component(ARGS_ARE_XY, 2, <<1, 1>>, <<>>) >>,
                <<>> >>
      [] name = "matching" ->
             \* the arguments are point numbers
             << <<>>, << Component(0, 2, <<1, 1>>, <<>>) >>, <<>>, <<>> >>
      [] name = "missing" ->
             \* the components have no outline or are not glyphs of the font
             << <<>>,
                << Component(ARGS_ARE_XY + MORE_COMPONENTS, 0, <<0, 0>>, <<>>),
                   Component(ARGS_ARE_XY + MORE_COMPONENTS, 9, <<0, 0>>, <<>>),
                   Component(ARGS_ARE_XY, 3, <<0, 0>>, <<>>) >>,
                <<>>, <<>> >>
      [] name = "more" ->
             \* MORE_COMPONENTS in the last record: the header of glyph 3 is
             \* read as the next one
             << <<>>, <<>>,
                << Component(ARGS_ARE_XY + MORE_COMPONENTS, 1, <<0, 0>>, <<>>) >>,
                <<>> >>

ComponentNames ==
    {"offsets", "nested", "rotated", "self", "cycle", "selfafter", "matching", "missing",
     "more"}

CompositeFonts ==
    { [BaseFont EXCEPT !.outline = "composite", !.components = Components(c),
                       !.numGlyphs = Len(Components(c))] : c \in ComponentNames }

InitComposite == InitOf(CompositeFonts)

\* stt_GetGlyphShape of a font with a glyf table is called
CallGetGlyphShape ==
    /\ pc = "ready"
    /\ info.cff.size = 0
    /\ calls = <<>>
    /\ \E g \in 0..(info.numGlyphs + 1) :
         /\ calls' = <<Activation(g)>>
         /\ op' = [name |-> "GetGlyphShape", arg |-> g]
    /\ ret' = <<>>
    /\ oob' = FALSE
    /\ UNCHANGED <<data, info, pc, asserted, ndebug, wild, spc, buf, run, ras>>

\* the innermost activation runs up to its loop, or to its return when the
\* glyph is not composite
EnterGlyph ==
    /\ pc = "ready"
    /\ calls # <<>>
    /\ calls[Len(calls)].at = "entry"
    /\ \E alloc \in BOOLEAN :
         LET r == EnterShape(calls[Len(calls)], alloc)
         IN  \E q \in {r} :
               /\ calls' = [calls EXCEPT ![Len(calls)] = q.f]
               /\ oob' = (oob \/ q.oob \/ q.heap)
    /\ UNCHANGED <<data, info, pc, op, ret, asserted, ndebug, wild, spc, buf, run, ras>>

\* The innermost activation reads a component record and calls
\* stt_GetGlyphShape for the component.  The call ends the program when the
\* stack has no room for it.
ReadComponent ==
    /\ pc = "ready"
    /\ calls # <<>>
    /\ calls[Len(calls)].at = "loop"
    /\ LET r == ReadComponentRecord(calls[Len(calls)])
       IN  \E q \in {r} :
             /\ oob' = (oob \/ q.oob)
             /\ asserted' = q.asrt
             /\ IF q.asrt
                THEN pc' = "aborted" /\ UNCHANGED calls
                ELSE IF Len(calls) >= MaxFrames
                THEN pc' = "crashed" /\ UNCHANGED calls
                ELSE /\ pc' = pc
                     /\ calls' = [calls EXCEPT ![Len(calls)] = q.f] \o <<Activation(q.gidx)>>
    /\ UNCHANGED <<data, info, op, ret, ndebug, wild, spc, buf, run, ras>>

\* The innermost activation returns: to the caller of stt_GetGlyphShape, or
\* to the activation that called it for a component, which appends the
\* vertices and goes on to the next record or to its own return.
ReturnGlyph ==
    /\ pc = "ready"
    /\ calls # <<>>
    /\ calls[Len(calls)].at = "return"
    /\ IF Len(calls) = 1
       THEN /\ ret' = <<calls[1].num_vertices, calls[1].pv, calls[1].vertices>>
            /\ calls' = <<>>
       ELSE /\ \E alloc \in BOOLEAN :
                 calls' = SubSeq(calls, 1, Len(calls) - 2)
                          \o <<AppendComponent(calls[Len(calls) - 1], calls[Len(calls)], alloc)>>
            /\ ret' = ret
    /\ UNCHANGED <<data, info, pc, op, oob, asserted, ndebug, wild, spc, buf, run, ras>>

StepGlyphShape == EnterGlyph \/ ReadComponent \/ ReturnGlyph

NextComposite ==
    \/ InitFont
    \/ CallGetGlyphShape
    \/ EnterGlyph
    \/ ReadComponent
    \/ ReturnGlyph

SpecComposite == InitComposite /\ [][NextComposite]_vars

\* the innermost activation is at the given place and the program runs
Innermost(at) == pc = "ready" /\ calls # <<>> /\ calls[Len(calls)].at = at

\* A call under way is not suspended for ever: each kind of step is taken
\* when it stays possible.  EnterGlyph and ReturnGlyph change the state
\* whenever the innermost activation is where they take it from.
GlyphShapeGoesOn ==
    /\ WF_vars(ReadComponent)
    /\ ([]<>~Innermost("entry") \/ []<><<EnterGlyph>>_vars)
    /\ ([]<>~Innermost("return") \/ []<><<ReturnGlyph>>_vars)

SpecCompositeFair == SpecComposite /\ GlyphShapeGoesOn

----------------------------------------------------------------------------
(* Properties *)

QueryNames == {"FindGlyphIndex", "GetGlyphBox", "IsGlyphEmpty", "GetGlyphHMetrics"}

\* C1: whatever the font buffer and whatever queries are made on a handle
\* initialised from it, every byte a query reads lies inside the buffer.
C1_QueriesReadInsideBuffer == op.name \in QueryNames => ~oob

ReaderNames == {"stt__safe_read8", "stt__safe_read16", "stt__safe_read16_signed",
                "stt__safe_read32", "stt__safe_read32_signed"}

\* [offset, offset + width) lies inside the buffer, the sum taken without
\* wraparound; a negative number stands for an unsigned value of 2^31 or more
RangeInBuffer(offset, width) ==
    offset >= 0 /\ width >= 0 /\ width <= Len(data) /\ offset <= Len(data) - width

\* the big-endian value of the bytes at [offset, offset + width), in the
\* reader's result type
BigEndianAt(name, offset) ==
    CASE name = "stt__safe_read8" -> data[offset + 1]
      [] name = "stt__safe_read16" -> data[offset + 1] * 256 + data[offset + 2]
      [] name = "stt__safe_read16_signed" ->
             ToInt16(data[offset + 1] * 256 + data[offset + 2])
      [] OTHER -> Word32(data[offset + 1], data[offset + 2], data[offset + 3],
                         data[offset + 4])

\* C2: for every unsigned 32-bit offset a reader returns the big-endian value
\* when offset + width <= data_size (no wraparound) and otherwise returns 0 and
\* loads nothing; stt__safe_check_bounds is true only for a range inside the
\* buffer.
C2_ReadersBoundsChecked ==
    /\ op.name \in ReaderNames =>
         /\ ~oob
         /\ ret[1] = IF RangeInBuffer(op.arg, op.width)
                     THEN BigEndianAt(op.name, op.arg) ELSE 0
    /\ op.name = "stt__safe_check_bounds" =>
         (ret[1] => RangeInBuffer(op.arg, op.width))

\* C3: stt_InitFont on any buffer returns 0 or 1; no assertion fails and no
\* byte outside the buffer is read.
C3_InitFontNeverFaults ==
    op.name = "InitFont" => ~oob /\ ~asserted /\ ret \in {<<0>>, <<1>>}

\* C4: stt_InitFont returns 0 or leaves a handle with numGlyphs >= 1 and
\* index_map # 0 (checked on the runs in which stt_InitFont read nothing
\* outside the buffer).
C4_InitLeavesUsableHandle ==
    (op.name = "InitFont" /\ ~oob /\ ret = <<1>>) =>
        info.numGlyphs >= 1 /\ info.index_map # 0

\* C5: for a glyph index outside [0, numGlyphs) the box and the horizontal
\* metrics are zero, no assertion fails and nothing outside the buffer is read.
C5_OutOfRangeGlyphIsEmpty ==
    (op.name \in {"GetGlyphBox", "GetGlyphHMetrics"}
       /\ (op.arg < 0 \/ op.arg >= info.numGlyphs)) =>
        /\ ~oob
        /\ ~asserted
        /\ op.name = "GetGlyphBox" => ret = <<0>>
        /\ op.name = "GetGlyphHMetrics" => ret = <<0, 0>>

\* the format of the cmap subtable stt_InitFont selected
SelectedFormat == stt__safe_read16(info.index_map).v

\* C6: on a handle with at least one glyph and a subtable of format 0, 4, 6, 12
\* or 13, stt_FindGlyphIndex(c) is in [0, numGlyphs) for every codepoint c
\* (checked on the lookups that read nothing outside the buffer).
C6_GlyphIndexInRange ==
    (op.name = "FindGlyphIndex" /\ ~oob /\ info.numGlyphs >= 1
       /\ SelectedFormat \in {0, 4, 6, 12, 13}) =>
        ret[1] >= 0 /\ ret[1] < info.numGlyphs

TableMissing(tag) == stt__find_table(0, tag).v = 0

\* the charstring type the Top DICT of the CFF table declares (2 when it
\* declares none), whether or not stt_InitFont gets as far as reading it
DeclaredCharstringType ==
    LET cff     == stt__find_table(0, TagCFF)
        size    == stt__get_table_size(0, TagCFF)
        cffbuf  == stt__new_buf(cff.v, size.v)
        hdrsize == stt__buf_get8(stt__buf_skip(cffbuf, 2))
        m0      == [b |-> stt__buf_seek(hdrsize.b, hdrsize.v), idx |-> NullBuf,
                    oob |-> FALSE, asrt |-> FALSE]
        mTop    == IndexStep(IndexStep(m0))
        topdict == stt__cff_index_get(mTop.idx, 0)
    IN  IF mTop.asrt \/ topdict.asrt THEN 2
        ELSE stt__dict_get_ints(topdict.v, 256 + 6, 1, <<2>>).v[1]

LacksRequiredTables ==
    \/ \E t \in {TagCmap, TagHead, TagHhea, TagHmtx} : TableMissing(t)
    \/ ~TableMissing(TagGlyf) /\ TableMissing(TagLoca)
    \/ TableMissing(TagGlyf)
       /\ (TableMissing(TagCFF) \/ DeclaredCharstringType # 2)

\* C7: stt_InitFont returns 0 when cmap, head, hhea or hmtx is missing, when
\* glyf is present without loca, and when glyf is absent and the CFF table is
\* missing or declares a charstring type other than 2.
C7_InitFailsWithoutRequiredTables ==
    (op.name = "InitFont" /\ LacksRequiredTables) => ret = <<0>>

\* the encoding records of the cmap table, as the selection loop reads them
CmapOffset == stt__find_table(0, TagCmap).v
NumRecords == stt__safe_read16(Add32(CmapOffset, 2)).v
RecordAt(i) ==
    LET e == Add32(Add32(CmapOffset, 4), 8 * i)
    IN  [platform |-> stt__safe_read16(e).v,
         encoding |-> stt__safe_read16(Add32(e, 2)).v,
         subtable |-> Add32(CmapOffset, stt__safe_read32(Add32(e, 4)).v),
         inside   |-> stt__safe_check_bounds(e, 8)]

\* the records the loop reaches (it stops at the first record that does not lie
\* inside the buffer) and, of these, the usable ones
RECURSIVE ReachedFrom(_)
ReachedFrom(i) ==
    IF i >= NumRecords \/ ~RecordAt(i).inside THEN i ELSE ReachedFrom(i + 1)
ReachedRecords == 0..(ReachedFrom(0) - 1)
UsableRecords  ==
    { i \in ReachedRecords : RecordUnderstood(RecordAt(i).platform, RecordAt(i).encoding) }

LastUsableRecord == LET U == UsableRecords IN CHOOSE i \in U : \A j \in U : j <= i

\* 1 Microsoft/Unicode-BMP, 2 Microsoft/Unicode-full, 3 Unicode platform
PriorityRank(i) ==
    IF RecordAt(i).platform = STT_PLATFORM_ID_MICROSOFT
    THEN IF RecordAt(i).encoding = STT_MS_EID_UNICODE_BMP THEN 1 ELSE 2
    ELSE 3

HighestPriorityRecord ==
    LET U == UsableRecords
    IN  CHOOSE i \in U :
            \A j \in U :
                \/ PriorityRank(i) < PriorityRank(j)
                \/ PriorityRank(i) = PriorityRank(j) /\ i <= j

\* the cmap table starts inside the buffer and so do all its encoding records
CmapInsideBuffer ==
    CmapOffset > 0 /\ CmapOffset < Len(data) /\ ReachedFrom(0) = NumRecords

\* C8 as stated: when stt_InitFont accepts a font whose cmap table holds
\* several usable records, index_map is the subtable of the one of highest
\* priority (Microsoft/Unicode-BMP, then Microsoft/Unicode-full, then Unicode
\* platform), whatever the record order.
C8_HighestPriorityRecordWins ==
    (op.name = "InitFont" /\ ret = <<1>> /\ CmapInsideBuffer
       /\ Cardinality(UsableRecords) >= 2) =>
        UsableRecords # {} /\ info.index_map = RecordAt(HighestPriorityRecord).subtable

\* C8, amended: when stt_InitFont accepts a font, index_map is the subtable of
\* the last usable record in table order; the three kinds of usable record
\* rank equal.
C8_LastUsableRecordWins ==
    (op.name = "InitFont" /\ ret = <<1>>) =>
        UsableRecords # {} /\ info.index_map = RecordAt(LastUsableRecord).subtable

\* stt_InitFont accepted a font with several usable records whose last one is
\* not the one of highest priority, and selected the last one's subtable
C8_Witness ==
    /\ op.name = "InitFont"
    /\ ret = <<1>>
    /\ CmapInsideBuffer
    /\ Cardinality(UsableRecords) >= 2
    /\ HighestPriorityRecord # LastUsableRecord
    /\ RecordAt(HighestPriorityRecord).subtable # RecordAt(LastUsableRecord).subtable
    /\ info.index_map = RecordAt(LastUsableRecord).subtable

\* the last segment of the selected format-4 subtable
Format4SegCount == stt__safe_read16(Add32(info.index_map, 6)).v \div 2
Format4LastSegment ==
    LET m == info.index_map
        n == Format4SegCount
        k == n - 1
    IN  [last   |-> stt__safe_read16(Add32(m, 14 + 2 * k)).v,
         start  |-> stt__safe_read16(Add32(m, 14 + n * 2 + 2 + 2 * k)).v,
         delta  |-> stt__safe_read16_signed(Add32(m, 14 + n * 4 + 2 + 2 * k)).v,
         offset |-> stt__safe_read16(Add32(m, 14 + n * 6 + 2 + 2 * k)).v]

HasSentinelSegment ==
    /\ SelectedFormat = 4
    /\ Format4SegCount >= 1
    /\ Format4LastSegment = [last |-> 65535, start |-> 65535, delta |-> 0, offset |-> 0]

\* C9: when the last segment of the format-4 subtable is [0xFFFF, 0xFFFF] with
\* idDelta 0 and idRangeOffset 0, stt_FindGlyphIndex(0xFFFF) returns 0.
C9_SentinelMapsToMissingGlyph ==
    (op.name = "FindGlyphIndex" /\ op.arg = 65535 /\ HasSentinelSegment) => ret = <<0>>

\* C10: when the selected subtable has format 2 or a format outside
\* {0, 4, 6, 12, 13}, stt_FindGlyphIndex returns 0 for every codepoint and no
\* assertion fails.
C10_UnsupportedFormatReturnsZero ==
    (op.name = "FindGlyphIndex" /\ SelectedFormat \notin {0, 4, 6, 12, 13}) =>
        ~asserted /\ ret = <<0>>

\* the two contributions to the kerning of the pair the last query asked for
GposContribution == stt__GetGlyphGPOSInfoAdvance(op.arg[1], op.arg[2]).v
KernContribution == stt__GetGlyphKernInfoAdvance(op.arg[1], op.arg[2]).v

\* C11 as stated: stt_GetGlyphKernAdvance(g1, g2) is the GPOS pair adjustment
\* plus the kern-table value of the pair, also on a font with both tables.
C11_KernAdvanceIsSum ==
    op.name = "GetGlyphKernAdvance" => ret[1] = GposContribution + KernContribution

\* C11, amended: on a font with a GPOS table the result is the GPOS pair
\* adjustment alone; the kern table is consulted only when there is no GPOS
\* table.
C11_KernAdvanceIsGposElseKern ==
    op.name = "GetGlyphKernAdvance" =>
        ret[1] = IF info.gpos # 0 THEN GposContribution ELSE KernContribution

\* a pair with a kern-table value on a font whose GPOS table adjusts it too
C11_Witness ==
    /\ op.name = "GetGlyphKernAdvance"
    /\ info.gpos # 0 /\ info.kern # 0
    /\ GposContribution = -30 /\ KernContribution = -80
    /\ ret = <<-30>>

\* what the first bytes of the file say it is
FileTag      == SubSeq(data, 1, 4)
FileIsFont   == FileTag \in {Tag1, TagTyp1, TagOTTO, Tag0100, TagTrue}
FileIsTtc    == FileTag = TagTtcf /\ SubSeq(data, 5, 8) \in {<<0, 1, 0, 0>>, <<0, 2, 0, 0>>}
FileNumFonts == Word32(data[9], data[10], data[11], data[12])
FileOffset(i) ==
    Word32(data[13 + 4 * i], data[14 + 4 * i], data[15 + 4 * i], data[16 + 4 * i])

\* C12: stt_GetNumberOfFonts returns 1 for a plain font, the font count for a
\* collection of version 1 or 2, and -1 for every other header.
C12_NumberOfFonts ==
    op.name = "GetNumberOfFonts" =>
        ret[1] = IF FileIsFont THEN 1 ELSE IF FileIsTtc THEN FileNumFonts ELSE -1

\* C13: for a collection with n fonts stt_GetFontOffsetForIndex(i) returns
\* entry i of the offset array for i in [0, n) and -1 for every other i,
\* negative ones included; for a plain font it returns 0 for index 0 and -1 for
\* every other index.
C13_FontOffsetForIndex ==
    op.name = "GetFontOffsetForIndex" =>
        /\ FileIsFont => ret[1] = IF op.arg = 0 THEN 0 ELSE -1
        /\ (~FileIsFont /\ FileIsTtc) =>
              ret[1] = IF op.arg >= 0 /\ op.arg < FileNumFonts
                       THEN FileOffset(op.arg) ELSE -1

\* the 16-bit big-endian number at byte k of the hmtx table, and hhea's
\* numOfLongHorMetrics
HmtxWord(k) == data[info.hmtx + k + 1] * 256 + data[info.hmtx + k + 2]
NumOfLongHorMetrics == data[info.hhea + 35] * 256 + data[info.hhea + 36]

\* C15: for a glyph g of the font stt_GetGlyphHMetrics returns, when
\* g < numOfLongHorMetrics, the advance of long entry g as an unsigned 16-bit
\* value and its lsb as a signed one; otherwise the advance of the last long
\* entry and the (g - numOfLongHorMetrics)-th trailing lsb.
C15_HMetricsValues ==
    (op.name = "GetGlyphHMetrics" /\ op.arg >= 0 /\ op.arg < info.numGlyphs
       /\ NumOfLongHorMetrics >= 1) =>
        LET n == NumOfLongHorMetrics
            g == op.arg
        IN  IF g < n
            THEN ret = <<HmtxWord(4 * g), ToInt16(HmtxWord(4 * g + 2))>>
            ELSE ret = <<HmtxWord(4 * (n - 1)), ToInt16(HmtxWord(4 * n + 2 * (g - n)))>>


----------------------------------------------------------------------------
(* Charstring errors *)

\* the fonts whose glyph 0 runs into an error
ErrorFonts ==
    { FontBytes(CharstringFont(p, "no")) : p \in ErrorPrograms }
    \cup { FontBytes(CharstringFont(p, "covered")) :
             p \in NestedTooDeep \cup { Move \o CsInt(-104) \o callsubr } }

ErrorGlyphQueried ==
    /\ pc # "fresh"
    /\ op.name \in {"GetGlyphShape", "GetGlyphBox"}
    /\ op.arg = 0
    /\ data \in ErrorFonts

----------------------------------------------------------------------------
(* Empty glyphs *)

\* C14: a glyph that stt_IsGlyphEmpty reports empty has a shape of zero
\* vertices, and a bitmap of it (made with a scale that is not zero) has
\* width 0 and height 0, whatever box its glyph header declares.
C14_EmptyGlyphHasNoShapeAndNoBitmap ==
    (/\ pc = "ready"
     /\ op.name \in {"GetGlyphShape", "GetGlyphBitmap"}
     /\ ~stt_IsGlyphEmpty(op.arg).asrt
     /\ stt_IsGlyphEmpty(op.arg).v # 0)
    => /\ op.name = "GetGlyphShape" => ret[1] = 0
       /\ (op.name = "GetGlyphBitmap" /\ Len(ret) = 5) => (ret[2] = 0 /\ ret[3] = 0)


----------------------------------------------------------------------------
(* Allocation failure *)

\* C17: when the allocation of the vertex array fails, stt_GetGlyphShape
\* returns 0 with a NULL array, and nothing is stored through the NULL pointer.
C17_FailedAllocationGivesEmptyShape ==
    (pc # "fresh" /\ op.name = "GetGlyphShape" /\ ~op.alloc /\ ~asserted)
    => (pc = "ready" /\ ret = <<0, FALSE, <<>>>>)


----------------------------------------------------------------------------
(* The atlas packer *)

\* the rectangle, padding included, of an area rendered in the atlas
RenderedRect(a) ==
    [x |-> a.x - spc.padding, y |-> a.y - spc.padding,
     w |-> a.w + spc.padding + spc.h_oversample - 1,
     h |-> a.h + spc.padding + spc.v_oversample - 1]

\* the areas [x, x+w) x [y, y+h) of the rectangles a and b have a point in common
Overlap(a, b) ==
    /\ a.w > 0 /\ a.h > 0 /\ b.w > 0 /\ b.h > 0
    /\ a.x < b.x + b.w /\ b.x < a.x + a.w
    /\ a.y < b.y + b.h /\ b.y < a.y + a.h

\* C18: after gather, pack and render, over one or several pack calls on the
\* same pack context, no two rectangles marked as packed overlap: the areas
\* [x, x+w) x [y, y+h) of any two of them are disjoint.  (A packed rectangle
\* with a width and a height other than 0 is rendered, and the others have no
\* area.)
C18_PackedRectanglesAreDisjoint ==
    (pc = "ready" /\ spc.width > 0)
    => \A i, j \in DOMAIN spc.pixels :
          i # j => ~Overlap(RenderedRect(spc.pixels[i]), RenderedRect(spc.pixels[j]))

\* C19: a rectangle the row packer marks as packed fits in the pack target at
\* its position: x >= 0, y >= 0, x + w <= width and y + h <= height; one that
\* does not fit is marked unpacked.
C19_PackedRectangleFitsInTarget ==
    (pc = "ready" /\ op.name = "PackFontRanges")
    => \A k \in DOMAIN ret[3] :
          ret[3][k].was_packed # 0
          => /\ ret[3][k].x >= 0
             /\ ret[3][k].y >= 0
             /\ ret[3][k].x + ret[3][k].w <= spc.pack_info.width
             /\ ret[3][k].y + ret[3][k].h <= spc.pack_info.height

\* the characters of the last pack call that have no glyph, as indices into
\* the rectangles
MissingChars ==
    LET chars == RangeChars(op.ranges, 0)
    IN  { k \in DOMAIN chars :
            stt_FindGlyphIndex(RangeCodepoint(op.ranges[chars[k][1] + 1], chars[k][2])).v = 0 }

\* the packed-char record of character k of the last pack call
PackedCharOf(k) ==
    LET c == RangeChars(op.ranges, 0)[k]
    IN  ret[2][c[1] + 1][c[2] + 1]

\* C20: with skip_missing = 0, after a stt_PackFontRanges that reports success,
\* every requested codepoint without a glyph has the packed-char record of the
\* missing-character glyph, in whichever range and at whichever position it
\* occurs, and exactly one of them was given a rectangle that is not empty (the
\* glyph is rendered once); with skip_missing other than 0 the rectangles of
\* such codepoints are all empty.
C20_MissingCodepointsShareTheMissingGlyph ==
    (pc = "ready" /\ op.name = "PackFontRanges" /\ MissingChars # {})
    => IF spc.skip_missing # 0
       THEN \A k \in MissingChars : ret[3][k].w = 0 /\ ret[3][k].h = 0
       ELSE ret[1] = 1
            => /\ \E f \in MissingChars :
                    /\ ret[3][f].w # 0 /\ ret[3][f].h # 0
                    /\ \A k \in MissingChars : PackedCharOf(k) = PackedCharOf(f)
               /\ Cardinality({ k \in MissingChars : ret[3][k].w # 0 /\ ret[3][k].h # 0 }) = 1

----------------------------------------------------------------------------
(* The lazily resolved SVG table *)

HasSvgTable == stt__find_table(0, TagSVG).v # 0

\* C21: resolving the svg table offset lazily is idempotent: a call of
\* stt_GetGlyphSVG that follows a call for the same glyph returns what that call
\* returned, info->svg once resolved keeps its value, and for a font without an
\* SVG table every call, the first included, returns 0.
C21_GetGlyphSVGIsIdempotent ==
    [][op'.name = "GetGlyphSVG"
       => /\ (op.name = "GetGlyphSVG" /\ op.arg = op'.arg) => ret' = ret
          /\ info.svg >= 0 => info'.svg = info.svg
          /\ ~HasSvgTable => ret'[1] = 0]_vars

----------------------------------------------------------------------------
(* The cursor of a stt__buf *)

\* the bytes [base, base + size) of b lie in those of the buffer p
Inside(b, p) == b.base >= p.base /\ b.base + b.size <= p.base + p.size

\* C22: under any sequence of get8, peek8, get, seek, skip and range with any
\* arguments, the cursor of a stt__buf stays in 0..size, a get8 or peek8 at
\* cursor = size returns 0 and loads nothing, a buffer made by stt__buf_range
\* is empty or lies inside its parent, and so inside the original buffer, and no
\* operation loads a byte outside the original buffer.
C22_CursorStaysInsideBuffer ==
    /\ 0 <= buf.cursor /\ buf.cursor <= buf.size
    /\ buf.size = 0 \/ Inside(buf, stt__new_buf(0, Len(data)))
    /\ ~oob
    /\ (op.name \in {"get8", "peek8"} /\ op.before.cursor = op.before.size)
       => ret = <<0>> /\ buf = op.before
    /\ op.name \in {"get8", "peek8"} /\ op.before.cursor < op.before.size
       => ret = <<data[op.before.base + op.before.cursor + 1]>>
    /\ op.name = "range" => buf.size = 0 \/ Inside(buf, op.before)

\* a read at the end of a sub-buffer that ends before the original buffer does
C22_Witness ==
    /\ op.name = "get8"
    /\ op.before.cursor = op.before.size
    /\ op.before.base > 0
    /\ op.before.base + op.before.size < Len(data)
    /\ ret = <<0>>

----------------------------------------------------------------------------
(* The format-4 search is a linear scan *)

\* the 16-bit word at offset o of the buffer
WordAt(o) == data[o + 1] * 256 + data[o + 2]

\* the arrays of the format-4 subtable selected, segment i counted from 0
EndCountAt(i)      == WordAt(info.index_map + 14 + 2 * i)
StartCountAt(i)    == WordAt(info.index_map + 16 + 2 * Format4SegCount + 2 * i)
IdDeltaAt(i)       == WordAt(info.index_map + 16 + 4 * Format4SegCount + 2 * i)
IdRangeOffsetAt(i) == WordAt(info.index_map + 16 + 6 * Format4SegCount + 2 * i)

\* the glyph of codepoint c by a scan of the segments from the first one
LinearScan(c) ==
    IF c > 65535 THEN 0
    ELSE LET i == CHOOSE k \in 0..(Format4SegCount - 1) :
                      /\ EndCountAt(k) >= c
                      /\ \A j \in 0..(k - 1) : EndCountAt(j) < c
         IN  IF c < StartCountAt(i) THEN 0
             ELSE IF IdRangeOffsetAt(i) = 0 THEN (c + IdDeltaAt(i)) % 65536
             ELSE WordAt(info.index_map + 16 + 6 * Format4SegCount + 2 * i
                         + IdRangeOffsetAt(i) + 2 * (c - StartCountAt(i)))

\* C23: on a well-formed format-4 subtable stt_FindGlyphIndex(c) is, for every
\* c <= 0xFFFF, what a linear scan gives: with the first segment whose endCount
\* is at least c, 0 if c is below its startCount, (c + idDelta) mod 65536 if its
\* idRangeOffset is 0 and else the glyph array entry the idRangeOffset leads
\* to; and it is 0 for every c > 0xFFFF.
C23_Format4SearchIsLinearScan ==
    (pc = "ready" /\ op.name = "FindGlyphIndex")
    => /\ ret = <<LinearScan(op.arg)>>
       /\ ~oob /\ ~asserted

\* a codepoint found through the glyph array in a subtable whose search starts
\* at rangeShift
C23_Witness ==
    /\ pc = "ready" /\ op.name = "FindGlyphIndex"
    /\ Format4SegCount = MaxSegments
    /\ WordAt(info.index_map + 12) > 0
    /\ op.arg = 15
    /\ ret = <<301>>

----------------------------------------------------------------------------
(* The stacks of the charstring interpreter *)

\* the indices k of the s[k] read by
\*   for (i = first; i + width - 1 < limit; i += step) ... s[i] ... s[i+width-1] ...
\* and the i the loop ends with
LoopStarts(first, step, width, limit) ==
    { i \in first..limit : (i - first) % step = 0 /\ i + width - 1 < limit }
LoopReads(first, step, width, limit) ==
    UNION { i..(i + width - 1) : i \in LoopStarts(first, step, width, limit) }
LoopEnd(first, step, width, limit) ==
    first + step * Cardinality(LoopStarts(first, step, width, limit))

\* the indices k of the s[k] that the operator b0 (b1 after the escape 12)
\* reads when the stack holds sp operands
OperandsRead(b0, b1, sp) ==
    CASE b0 = 21 -> IF sp < 2 THEN {} ELSE {sp - 2, sp - 1}
      [] b0 \in {4, 22} -> IF sp < 1 THEN {} ELSE {sp - 1}
      [] b0 = 5 -> IF sp < 2 THEN {} ELSE LoopReads(0, 2, 2, sp)
      [] b0 \in {6, 7} -> IF sp < 1 THEN {} ELSE LoopReads(0, 1, 1, sp)
      [] b0 \in {30, 31} ->
             IF sp < 4 THEN {}
             ELSE LoopReads(0, 4, 4, sp)
                  \cup { i + 4 : i \in { j \in LoopStarts(0, 4, 4, sp) : sp - j = 5 } }
      [] b0 = 8 -> IF sp < 6 THEN {} ELSE LoopReads(0, 6, 6, sp)
      [] b0 = 24 ->
             IF sp < 8 THEN {}
             ELSE LoopReads(0, 6, 6, sp - 2)
                  \cup (LET i == LoopEnd(0, 6, 6, sp - 2)
                        IN  IF i + 1 >= sp THEN {} ELSE {i, i + 1})
      [] b0 = 25 ->
             IF sp < 8 THEN {}
             ELSE LoopReads(0, 2, 2, sp - 6)
                  \cup (LET i == LoopEnd(0, 2, 2, sp - 6)
                        IN  IF i + 5 >= sp THEN {} ELSE i..(i + 5))
      [] b0 \in {26, 27} ->
             IF sp < 4 THEN {}
             ELSE (IF sp % 2 = 1 THEN {0} ELSE {}) \cup LoopReads(sp % 2, 4, 4, sp)
      [] b0 \in {10, 29} -> IF sp < 1 THEN {} ELSE {sp - 1}
      [] b0 = 12 /\ b1 = 34 -> IF sp < 7 THEN {} ELSE 0..6
      [] b0 = 12 /\ b1 = 35 -> IF sp < 13 THEN {} ELSE 0..11
      [] b0 = 12 /\ b1 = 36 -> IF sp < 9 THEN {} ELSE 0..8
      [] b0 = 12 /\ b1 = 37 -> IF sp < 11 THEN {} ELSE 0..10
      [] OTHER -> {}

\* the operator the next iteration of the run fetches, and the byte after it
NextOperator == stt__buf_get8(run.b)
ByteAfterOperator == stt__buf_get8(NextOperator.b)

\* C24: in stt__run_charstring 0 <= sp <= 48 and 0 <= subr_stack_height <= 10
\* always hold, no operator reads an s[k] with k >= sp, and no access falls
\* outside s[0..47] or subr_stack[0..9].
C24_StacksStayInBounds ==
    [][(run.r = "run" /\ run'.r # "none" /\ run.b.cursor < run.b.size /\ op' = op)
       => /\ Len(run.s) \in 0..StackSize /\ Len(run'.s) \in 0..StackSize
          /\ Len(run.subr_stack) \in 0..10 /\ Len(run'.subr_stack) \in 0..10
          /\ \A k \in OperandsRead(NextOperator.v, ByteAfterOperator.v, Len(run.s)) :
                k >= 0 /\ k < Len(run.s) /\ k < StackSize
          /\ Len(run'.s) > Len(run.s)
             => Len(run'.s) = Len(run.s) + 1 /\ Len(run.s) < StackSize
          /\ Len(run'.subr_stack) > Len(run.subr_stack)
             => Len(run'.subr_stack) = Len(run.subr_stack) + 1 /\ Len(run.subr_stack) < 10]_vars

\* a push refused with 48 operands on the stack, and a call refused with ten
\* buffers on the subr stack
C24_Witness ==
    /\ run.r = "0"
    /\ Len(run.s) = StackSize
    /\ Len(run.subr_stack) = 10
    /\ ~run.asrt /\ ~run.oob

\* C28: stt__run_charstring returns, whatever the charstring and the subrs
\* hold, subrs that call themselves or each other included.
C28_RunTerminates == (run.r = "run") ~> (run.r \in {"0", "1"} \/ pc = "aborted")

\* the run of a glyph whose subrs call each other has returned 0 with ten
\* buffers on the subr stack
C28_Witness ==
    /\ op.name = "run_charstring" /\ op.arg = 3
    /\ run.r = "0"
    /\ Len(run.subr_stack) = 10

----------------------------------------------------------------------------
(* The first vertex of a shape *)

\* C25: every vertex array stt_GetGlyphShape returns that is not empty, of a
\* glyf glyph or of a charstring, starts with a move vertex, so that each line
\* and curve vertex has a vertex before it that gives its start point.
C25_ShapeStartsWithMove ==
    (op.name = "GetGlyphShape" /\ ret # <<>> /\ ret[1] > 0 /\ ret[2] /\ ret[3] # <<>>)
    => ret[3][1].type = STT_vmove

----------------------------------------------------------------------------
(* The vertex array of a simple glyph *)

\* C26: while a simple glyph of n points and c contours is decoded into the
\* array of m = n + 2c vertices whose last n entries hold the raw points, no
\* vertex is stored at an index >= m, none over a raw entry that is still to
\* be loaded, and no raw entry is loaded from an index >= m, whatever the
\* flags and the endPtsOfContours are.
C26_DecodingStaysInsideArray ==
    op.name = "GetGlyphShapeTT" => ~op.heap /\ ~op.clobber


\* C29: stt__sort_edges leaves the edges it was given, each as often as it
\* was given, with no y0 less than the one before it, and no function of it
\* uses an entry outside the n entries it was handed.
C29_SortEdgesSortsInBounds ==
    op.name = "sort_edges" =>
        /\ ~ret[2]
        /\ Len(ret[1]) = Len(op.arg)
        /\ {ret[1][i] : i \in DOMAIN ret[1]} = {op.arg[i] : i \in DOMAIN op.arg}
        /\ \A i \in 1..(Len(ret[1]) - 1) : ret[1][i].y0 <= ret[1][i + 1].y0

\* the longest arrays with equal edges out of order were sorted: the
\* quicksort partitioned more than once
C29_Witness ==
    /\ op.name = "sort_edges"
    /\ Len(op.arg) = MaxEdges
    /\ \E i, j \in DOMAIN op.arg : i < j /\ op.arg[i].y0 > op.arg[j].y0
    /\ \E i, j \in DOMAIN op.arg : i # j /\ op.arg[i].y0 = op.arg[j].y0
    /\ ret[1] # op.arg
    /\ ~ret[2]

\* C30: when the coverage of row y is accumulated every active edge has
\* sy <= y + 1 and ey >= y, and neither the assertion on ey at the insertion
\* of an edge nor those of the fill fail.
C30_ActiveEdgesCrossTheRow ==
    /\ ras.at = "fill" =>
          \A i \in DOMAIN ras.active :
              ras.active[i].sy <= Grid * (ras.y + 1) /\ ras.active[i].ey >= Grid * ras.y
    /\ ras.at = "aborted" => ras.failed = "z != NULL"

\* C27: every call of stt_GetGlyphShape on a font with a glyf table comes to
\* an end, also when a component of a composite glyph is the glyph itself or
\* the components form a cycle: the call returns, unless an assertion stops
\* the program.
C27_GetGlyphShapeReturns == (calls # <<>>) ~> (calls = <<>> \/ pc = "aborted")

============================================================================
